---- MODULE Spec2Model ----
(***************************************************************************)
(* Model of the @feizk/parser message-command parser: Tokenizer,           *)
(* ArgumentParser, MessageParser, SchemaValidator and the Parser facade.   *)
(*                                                                         *)
(* Text is modelled as a sequence of one-character strings, so that the    *)
(* character-level scanning of the source can be followed step by step.    *)
(* An optional value (a field that may be undefined) is a sequence of      *)
(* length 0 (absent) or 1 (present).                                       *)
(***************************************************************************)
EXTENDS Integers, Sequences, FiniteSets, TLC

(***************************************************************************)
(* Bounds of the model.                                                    *)
(***************************************************************************)
\* number of words a generated message has at most after its prefix
MaxWords == 3

(***************************************************************************)
(* Characters and character classes.                                       *)
(***************************************************************************)
LowerSeq ==
  <<"a","b","c","d","e","f","g","h","i","j","k","l","m",
    "n","o","p","q","r","s","t","u","v","w","x","y","z">>

UpperSeq ==
  <<"A","B","C","D","E","F","G","H","I","J","K","L","M",
    "N","O","P","Q","R","S","T","U","V","W","X","Y","Z">>

Lower == {LowerSeq[i] : i \in 1..26}

Upper == {UpperSeq[i] : i \in 1..26}

DigitSeq == <<"0","1","2","3","4","5","6","7","8","9">>

Digits == {DigitSeq[i] : i \in 1..10}

\* \w of a JavaScript regular expression
WordChars == Lower \cup Upper \cup Digits \cup {"_"}

\* the characters String.prototype.trim removes (those the model uses)
WhiteSpace == {" ", "\t"}

None == <<>>

Some(x) == <<x>>

(***************************************************************************)
(* String helpers (JavaScript String methods the source calls).            *)
(***************************************************************************)
\* s.slice(n): s without its first n characters
Drop(s, n) == IF n >= Len(s) THEN <<>> ELSE SubSeq(s, n + 1, Len(s))

\* s.slice(0, n)
Take(s, n) == IF n >= Len(s) THEN s ELSE SubSeq(s, 1, n)

StartsWith(s, p) == Len(p) <= Len(s) /\ SubSeq(s, 1, Len(p)) = p

EndsWith(s, p) == Len(p) <= Len(s) /\ SubSeq(s, Len(s) - Len(p) + 1, Len(s)) = p

\* the pattern p occurs in s starting at index i (1-based)
MatchAt(s, p, i) == i + Len(p) - 1 <= Len(s) /\ SubSeq(s, i, i + Len(p) - 1) = p

RECURSIVE TrimStart(_)
TrimStart(s) ==
  IF s # <<>> /\ Head(s) \in WhiteSpace THEN TrimStart(Tail(s)) ELSE s

RECURSIVE TrimEnd(_)
TrimEnd(s) ==
  IF s # <<>> /\ s[Len(s)] \in WhiteSpace THEN TrimEnd(SubSeq(s, 1, Len(s) - 1)) ELSE s

\* String.prototype.trim
Trim(s) == TrimEnd(TrimStart(s))

LowerChar(c) ==
  IF c \in Upper THEN LowerSeq[CHOOSE i \in 1..26 : UpperSeq[i] = c] ELSE c

\* String.prototype.toLowerCase
ToLowerCase(s) == [i \in 1..Len(s) |-> LowerChar(s[i])]

\* the number of leading characters of s that are in the class cls
RECURSIVE PrefixLen(_, _)
PrefixLen(s, cls) ==
  IF s # <<>> /\ Head(s) \in cls THEN 1 + PrefixLen(Tail(s), cls) ELSE 0

AllIn(s, cls) == \A i \in 1..Len(s) : s[i] \in cls

\* index of the first occurrence of the character c in s, 0 if none
IndexOf(s, c) ==
  IF \E i \in 1..Len(s) : s[i] = c
  THEN CHOOSE i \in 1..Len(s) : s[i] = c /\ \A j \in 1..(i - 1) : s[j] # c
  ELSE 0

(***************************************************************************)
(* Parser options.  prefix is the list of configured prefixes (a single    *)
(* prefix is a list of one); argFormat "undefined" is the option left out. *)
(***************************************************************************)
DefaultMentionPrefixes ==
  [user |-> <<"<", "@">>, role |-> <<"<", "@", "&">>, channel |-> <<"<", "#">>]

MkOptions(prefix, caseSensitive, delimiter, argFormat, mentionParsing) ==
  [prefix |-> prefix, caseSensitive |-> caseSensitive, delimiter |-> delimiter,
   argFormat |-> argFormat, mentionParsing |-> mentionParsing,
   mentionPrefixes |-> DefaultMentionPrefixes]

(***************************************************************************)
(* Tokenizer.                                                              *)
(***************************************************************************)
\* value matches prefix \d+ > at index i
MentionAt(value, prefix, i) ==
  /\ MatchAt(value, prefix, i)
  /\ LET rest == Drop(value, i + Len(prefix) - 1)
         n == PrefixLen(rest, Digits)
     IN n >= 1 /\ Len(rest) > n /\ rest[n + 1] = ">"

\* mentionRegex.test(value): the alternation of the three mention patterns,
\* not anchored, so it matches anywhere inside the value
MentionRegexTest(options, value) ==
  \E i \in 1..Len(value) :
    \/ MentionAt(value, options.mentionPrefixes.user, i)
    \/ MentionAt(value, options.mentionPrefixes.role, i)
    \/ MentionAt(value, options.mentionPrefixes.channel, i)

\* value.match(/^\w+\([^)]*\)$/)
IsTypedShape(value) ==
  LET n == PrefixLen(value, WordChars)
  IN /\ n >= 1
     /\ Len(value) >= n + 2
     /\ value[n + 1] = "("
     /\ value[Len(value)] = ")"
     /\ \A j \in (n + 2)..(Len(value) - 1) : value[j] # ")"

IsQuotedShape(value) ==
  \/ StartsWith(value, <<"\"">>) /\ EndsWith(value, <<"\"">>)
  \/ StartsWith(value, <<"'">>) /\ EndsWith(value, <<"'">>)

createToken(options, value, position) ==
  [type |-> IF options.mentionParsing /\ MentionRegexTest(options, value)
            THEN "mention"
            ELSE IF IsQuotedShape(value) THEN "quoted"
            ELSE IF IsTypedShape(value) THEN "typed"
            ELSE "text",
   value |-> value,
   position |-> position]

\* the scanner's local variables before the first character
TokInit ==
  [tokens |-> <<>>, currentToken |-> <<>>, currentPosition |-> 0,
   inDoubleQuote |-> FALSE, inSingleQuote |-> FALSE, parenLevel |-> 0,
   escapeNext |-> FALSE]

\* a test for the end of a token that does not look at the parentheses
endsTokenAnyDepth(isDelimiter, st, level) ==
  isDelimiter /\ ~st.inDoubleQuote /\ ~st.inSingleQuote

\* isDelimiter && !inDoubleQuote && !inSingleQuote && parenLevel === 0
endsToken(isDelimiter, st, level) ==
  isDelimiter /\ ~st.inDoubleQuote /\ ~st.inSingleQuote /\ level = 0

\* one iteration of the while loop: the character char at (0-based) index i
TokStep(options, st, char, i) ==
  LET isDelimiter == (<<char>> = options.delimiter)
      quoteStep(flag) ==
        IF st[flag]
        THEN [st EXCEPT !.currentToken = Append(@, char), ![flag] = FALSE]
        ELSE IF st.currentToken # <<>>
        THEN [st EXCEPT !.currentToken = Append(@, char), ![flag] = TRUE]
        ELSE [st EXCEPT !.currentToken = <<char>>, !.currentPosition = i,
                        ![flag] = TRUE]
      outside == ~st.inDoubleQuote /\ ~st.inSingleQuote
      level == IF char = "(" /\ outside THEN st.parenLevel + 1
               ELSE IF char = ")" /\ outside THEN st.parenLevel - 1
               ELSE st.parenLevel
  IN IF st.escapeNext
     THEN [st EXCEPT !.currentToken = Append(@, char), !.escapeNext = FALSE]
     ELSE IF char = "\\"
     THEN [st EXCEPT !.currentToken = Append(@, char), !.escapeNext = TRUE]
     ELSE IF char = "\"" /\ ~st.inSingleQuote THEN quoteStep("inDoubleQuote")
     ELSE IF char = "'" /\ ~st.inDoubleQuote THEN quoteStep("inSingleQuote")
     ELSE IF endsToken(isDelimiter, st, level)
     THEN IF st.currentToken # <<>>
          THEN [st EXCEPT !.tokens = Append(@, createToken(options, st.currentToken,
                                                           st.currentPosition)),
                          !.currentToken = <<>>, !.parenLevel = level]
          ELSE [st EXCEPT !.parenLevel = level]
     ELSE [st EXCEPT !.currentToken = Append(@, char),
                     !.currentPosition = IF st.currentToken = <<>> THEN i ELSE @,
                     !.parenLevel = level]

\* the scanner's state after the first n characters of message
RECURSIVE TokScan(_, _, _)
TokScan(options, message, n) ==
  IF n = 0 THEN TokInit
  ELSE TokStep(options, TokScan(options, message, n - 1), message[n], n - 1)

MkParseError(kind, text, position) ==
  [type |-> "parse", kind |-> kind, text |-> text, position |-> position]

\* an end of message that leaves the pending token out
pendingTokenDropped(options, st) == st.tokens

\* end of message: if (currentToken) tokens.push(createToken(...))
pendingToken(options, st) ==
  IF st.currentToken # <<>>
  THEN Append(st.tokens, createToken(options, st.currentToken, st.currentPosition))
  ELSE st.tokens

\* a report that names the single quote whichever quote is open
unclosedQuoteSingle(st) ==
  IF st.inDoubleQuote \/ st.inSingleQuote
  THEN <<MkParseError("Unclosed single quote", <<>>, st.currentPosition)>>
  ELSE <<>>

\* if (inDoubleQuote || inSingleQuote) errors.push({... `Unclosed ... quote`})
unclosedQuote(st) ==
  IF st.inDoubleQuote
  THEN <<MkParseError("Unclosed double quote", <<>>, st.currentPosition)>>
  ELSE IF st.inSingleQuote
  THEN <<MkParseError("Unclosed single quote", <<>>, st.currentPosition)>>
  ELSE <<>>

\* what follows the loop: the pending token and the unclosed-quote error
TokFinish(options, st) ==
  [tokens |-> pendingToken(options, st), errors |-> unclosedQuote(st)]

tokenize(options, message) ==
  TokFinish(options, TokScan(options, message, Len(message)))

\* Tokenizer.parseMention: an optional Mention
parseMention(options, token) ==
  IF token.type # "mention" THEN None
  ELSE LET value == token.value
           pre == options.mentionPrefixes
           hit == IF StartsWith(value, pre.user) THEN <<"user", Len(pre.user)>>
                  ELSE IF StartsWith(value, pre.role) THEN <<"role", Len(pre.role)>>
                  ELSE IF StartsWith(value, pre.channel) THEN <<"channel", Len(pre.channel)>>
                  ELSE <<>>
       IN IF hit = <<>> THEN None
          ELSE LET id == IF Len(value) - 1 <= hit[2] THEN <<>>
                         ELSE SubSeq(value, hit[2] + 1, Len(value) - 1)
               IN IF id # <<>> /\ AllIn(id, Digits)
                  THEN Some([type |-> hit[1], id |-> id, raw |-> value])
                  ELSE None

(***************************************************************************)
(* Value coercion.  An ArgumentValue is a record [t, v]: t is the          *)
(* JavaScript kind of the value ("string", "number", "boolean", "array",   *)
(* "date") and v its content.  A date is written in the ISO form YYYY-MM,  *)
(* the form every engine accepts.                                          *)
(*                                                                         *)
(* A JavaScript number is a record: kind "nan", kind "inf" with its sign,  *)
(* or kind "fin" with its sign, its decimal digits without leading or      *)
(* trailing zeros and the place of the decimal point: the value is         *)
(* 0.digits times 10^point, zero having no digits.  The texts of the model *)
(* have fewer than 16 significant digits, so the double parseFloat gives   *)
(* prints back as the same decimal.  The v of a number value is a TLA+     *)
(* integer when the number is an integer of at most 9 digits, and the      *)
(* record otherwise.                                                       *)
(***************************************************************************)
StringValue(s) == [t |-> "string", v |-> s]

NumberValue(n) == [t |-> "number", v |-> n]

BooleanValue(b) == [t |-> "boolean", v |-> b]

ArrayValue(items) == [t |-> "array", v |-> items]

DateValue(n) == [t |-> "date", v |-> n]

DigitValue(c) == (CHOOSE i \in 1..10 : DigitSeq[i] = c) - 1

RECURSIVE DigitsToNat(_)
DigitsToNat(s) ==
  IF s = <<>> THEN 0
  ELSE 10 * DigitsToNat(SubSeq(s, 1, Len(s) - 1)) + DigitValue(s[Len(s)])

RECURSIVE NatToDigits(_)
NatToDigits(n) ==
  IF n < 10 THEN <<DigitSeq[n + 1]>>
  ELSE Append(NatToDigits(n \div 10), DigitSeq[(n % 10) + 1])

RECURSIVE Pow10(_)
Pow10(k) == IF k = 0 THEN 1 ELSE 10 * Pow10(k - 1)

Zeros(k) == [i \in 1..k |-> "0"]

RECURSIVE StripLeadingZeros(_)
StripLeadingZeros(d) ==
  IF d # <<>> /\ Head(d) = "0" THEN StripLeadingZeros(Tail(d)) ELSE d

RECURSIVE StripTrailingZeros(_)
StripTrailingZeros(d) ==
  IF d # <<>> /\ d[Len(d)] = "0" THEN StripTrailingZeros(SubSeq(d, 1, Len(d) - 1))
  ELSE d

NaNNumber == [kind |-> "nan", neg |-> FALSE, digits |-> <<>>, point |-> 0]

InfNumber(neg) == [kind |-> "inf", neg |-> neg, digits |-> <<>>, point |-> 0]

FinNumber(neg, digits, point) ==
  [kind |-> "fin", neg |-> neg, digits |-> digits, point |-> point]

\* 0.a < 0.b for digit sequences
RECURSIVE DigitsLess(_, _)
DigitsLess(a, b) ==
  IF b = <<>> THEN FALSE
  ELSE IF a = <<>> THEN \E i \in 1..Len(b) : b[i] # "0"
  ELSE IF Head(a) # Head(b) THEN DigitValue(Head(a)) < DigitValue(Head(b))
  ELSE DigitsLess(Tail(a), Tail(b))

\* the digits of the least decimal that rounds to Infinity, about 1.8e308
OverflowDigits ==
  <<"1","7","9","7","6","9","3","1","3","4","8","6","2","3","1","5","8">>

\* the double nearest to 0.d * 10^point, for d without leading or trailing
\* zeros: beyond the largest double it is an infinity, below the smallest
\* it is zero
RoundDecimal(neg, d, point) ==
  IF d = <<>> THEN FinNumber(neg, <<>>, 0)
  ELSE IF point > 309 \/ (point = 309 /\ ~DigitsLess(d, OverflowDigits))
  THEN InfNumber(neg)
  ELSE IF point < 0 - 323 THEN FinNumber(neg, <<>>, 0)
  ELSE FinNumber(neg, d, point)

RoundStripped(neg, lead, exp10) ==
  RoundDecimal(neg, StripTrailingZeros(lead), Len(lead) + exp10)

\* the double nearest to the decimal digits * 10^exp10
RoundToDouble(neg, digits, exp10) ==
  RoundStripped(neg, StripLeadingZeros(digits), exp10)

Infinity == <<"I", "n", "f", "i", "n", "i", "t", "y">>

\* the longest prefix of x made of digits
DigitPrefix(x) == Take(x, PrefixLen(x, Digits))

\* the digits of the exponent part at the head of rest, if there is one
ExponentDigits(rest) ==
  IF rest # <<>> /\ Head(rest) \in {"e", "E"}
  THEN DigitPrefix(Drop(rest, IF Len(rest) >= 2 /\ rest[2] \in {"+", "-"}
                              THEN 2 ELSE 1))
  ELSE <<>>

ExponentValue(rest, expDigits) ==
  IF expDigits = <<>> THEN 0
  ELSE IF rest[2] = "-" THEN 0 - DigitsToNat(expDigits)
  ELSE DigitsToNat(expDigits)

\* the number of digits after a decimal point that follows a integer digits
FractionLen(body, a) ==
  IF Len(body) > a /\ body[a + 1] = "."
  THEN PrefixLen(Drop(body, a + 1), Digits) ELSE 0

ParseFloatScaled(neg, digits, b, rest) ==
  RoundToDouble(neg, digits, ExponentValue(rest, ExponentDigits(rest)) - b)

\* a integer digits and b fraction digits were read from body
ParseFloatMantissa(neg, body, a, b) ==
  IF a = 0 /\ b = 0 THEN NaNNumber
  ELSE ParseFloatScaled(
         neg,
         Take(body, a) \o (IF b >= 1 THEN SubSeq(body, a + 2, a + 1 + b) ELSE <<>>),
         b,
         Drop(body, IF Len(body) > a /\ body[a + 1] = "." THEN a + 1 + b ELSE a))

ParseFloatBody(neg, body, a) ==
  IF StartsWith(body, Infinity) THEN InfNumber(neg)
  ELSE ParseFloatMantissa(neg, body, a, FractionLen(body, a))

ParseFloatUnsigned(neg, body) ==
  ParseFloatBody(neg, body, PrefixLen(body, Digits))

ParseFloatSigned(t) ==
  ParseFloatUnsigned(t # <<>> /\ Head(t) = "-",
                     IF t # <<>> /\ Head(t) \in {"+", "-"} THEN Tail(t) ELSE t)

\* parseFloat(value): leading white space is skipped, then the longest
\* prefix that is a decimal literal is read; NaN if there is none
ParseFloat(value) == ParseFloatSigned(TrimStart(value))

\* Number.prototype.toString
NumberToString(num) ==
  IF num.kind = "nan" THEN <<"N", "a", "N">>
  ELSE IF num.kind = "inf" THEN (IF num.neg THEN <<"-">> ELSE <<>>) \o Infinity
  ELSE IF num.digits = <<>> THEN <<"0">>
  ELSE LET d == num.digits
           k == Len(d)
           n == num.point
           body ==
             IF k <= n /\ n <= 21 THEN d \o Zeros(n - k)
             ELSE IF 0 < n /\ n <= 21
             THEN SubSeq(d, 1, n) \o <<".">> \o SubSeq(d, n + 1, k)
             ELSE IF 0 - 6 < n /\ n <= 0 THEN <<"0", ".">> \o Zeros(0 - n) \o d
             ELSE <<Head(d)>> \o (IF k = 1 THEN <<>> ELSE <<".">> \o Tail(d))
                    \o <<"e">>
                    \o (IF n - 1 < 0 THEN <<"-">> \o NatToDigits(1 - n)
                        ELSE <<"+">> \o NatToDigits(n - 1))
       IN (IF num.neg THEN <<"-">> ELSE <<>>) \o body

\* the content of the number value
NumberContent(num) ==
  IF num.kind = "fin" /\ Len(num.digits) <= num.point /\ num.point <= 9
  THEN (IF num.neg THEN 0 - 1 ELSE 1)
         * DigitsToNat(num.digits) * Pow10(num.point - Len(num.digits))
  ELSE num

\* a check that accepts every text parseFloat reads a number from
IsNumberPrefix(value) == ParseFloat(value).kind # "nan"

PrintsAs(num, value) == num.kind # "nan" /\ NumberToString(num) = value

\* !isNaN(parseFloat(value)) && parseFloat(value).toString() === value
IsCanonicalNumber(value) == PrintsAs(ParseFloat(value), value)

\* !isNaN(new Date(value).getTime()) && !isNaN(Date.parse(value))
IsDateString(value) ==
  /\ Len(value) = 7
  /\ AllIn(SubSeq(value, 1, 4), Digits)
  /\ value[5] = "-"
  /\ AllIn(SubSeq(value, 6, 7), Digits)
  /\ DigitsToNat(SubSeq(value, 6, 7)) \in 1..12

\* the time value of an ISO date, in months
ParseDate(value) ==
  12 * DigitsToNat(SubSeq(value, 1, 4)) + DigitsToNat(SubSeq(value, 6, 7))

\* value.split(',')
RECURSIVE SplitComma(_)
SplitComma(value) ==
  LET i == IndexOf(value, ",")
  IN IF i = 0 THEN <<value>>
     ELSE <<Take(value, i - 1)>> \o SplitComma(Drop(value, i))

\* coerceValue on a text without a comma
CoerceScalar(value) ==
  IF Trim(value) = <<>> THEN StringValue(<<>>)
  ELSE IF value = <<"t", "r", "u", "e">> THEN BooleanValue(TRUE)
  ELSE IF value = <<"f", "a", "l", "s", "e">> THEN BooleanValue(FALSE)
  ELSE IF IsCanonicalNumber(value) THEN NumberValue(NumberContent(ParseFloat(value)))
  ELSE IF IsDateString(value) THEN DateValue(ParseDate(value))
  ELSE StringValue(value)

coerceValue(value) ==
  IF Trim(value) # <<>> /\ IndexOf(value, ",") # 0
  THEN LET parts == SplitComma(value)
       IN ArrayValue([i \in 1..Len(parts) |-> CoerceScalar(Trim(parts[i]))])
  ELSE CoerceScalar(value)

(***************************************************************************)
(* ArgumentParser.  args is a function from keys to values; a later        *)
(* argument with the same key overwrites the earlier one.                  *)
(***************************************************************************)
NoArgs == [k \in {} |-> 0]

SetArg(args, key, value) ==
  [k \in (DOMAIN args) \cup {key} |-> IF k = key THEN value ELSE args[k]]

HasArg(args, key) == key \in DOMAIN args

\* parseValue: strips one pair of surrounding quotes, then coerces
parseValue(valueStr) ==
  IF IsQuotedShape(valueStr)
  THEN coerceValue(IF Len(valueStr) <= 2 THEN <<>>
                   ELSE SubSeq(valueStr, 2, Len(valueStr) - 1))
  ELSE coerceValue(valueStr)

\* token.value.match(/^(\w+)\((.*)\)$/): <<key, valueStr>>, or <<>> on no match
MatchTyped(value) ==
  LET n == PrefixLen(value, WordChars)
  IN IF n >= 1 /\ Len(value) >= n + 2 /\ value[n + 1] = "(" /\ value[Len(value)] = ")"
     THEN <<Take(value, n),
            IF Len(value) = n + 2 THEN <<>> ELSE SubSeq(value, n + 2, Len(value) - 1)>>
     ELSE <<>>

\* token.value.match(/^(\w+)=(.*)$/)
MatchEquals(value) ==
  LET n == PrefixLen(value, WordChars)
  IN IF n >= 1 /\ Len(value) >= n + 1 /\ value[n + 1] = "="
     THEN <<Take(value, n), Drop(value, n + 1)>>
     ELSE <<>>

\* a loop that gives up at the first token that does not match
RECURSIVE ParseShapedStopsAtError(_, _, _, _)
ParseShapedStopsAtError(format, tokens, i, acc) ==
  IF i > Len(tokens) THEN acc
  ELSE LET token == tokens[i]
           match == IF format = "equals" THEN MatchEquals(token.value)
                    ELSE MatchTyped(token.value)
       IN IF match # <<>>
          THEN ParseShapedStopsAtError(format, tokens, i + 1,
                 [acc EXCEPT !.args = SetArg(@, match[1], parseValue(match[2]))])
          ELSE [acc EXCEPT !.errors =
                  Append(@, MkParseError(IF format = "equals"
                                         THEN "Invalid equals argument format"
                                         ELSE "Invalid typed argument format",
                                         token.value, token.position))]

\* the loop of parseTypedArgs / parseEqualsArgs from token i (1-based) on
RECURSIVE ParseShapedFrom(_, _, _, _)
ParseShapedFrom(format, tokens, i, acc) ==
  IF i > Len(tokens) THEN acc
  ELSE LET token == tokens[i]
           match == IF format = "equals" THEN MatchEquals(token.value)
                    ELSE MatchTyped(token.value)
       IN ParseShapedFrom(format, tokens, i + 1,
            IF match # <<>>
            THEN [acc EXCEPT !.args = SetArg(@, match[1], parseValue(match[2]))]
            ELSE [acc EXCEPT !.errors =
                    Append(@, MkParseError(IF format = "equals"
                                           THEN "Invalid equals argument format"
                                           ELSE "Invalid typed argument format",
                                           token.value, token.position))])

parseTypedArgs(tokens, i, acc) == ParseShapedFrom("typed", tokens, i, acc)

parseEqualsArgs(tokens, i, acc) == ParseShapedFrom("equals", tokens, i, acc)

RECURSIVE parseNamedArgs(_, _, _)
parseNamedArgs(tokens, i, acc) ==
  IF i > Len(tokens) THEN acc
  ELSE LET token == tokens[i]
       IN IF StartsWith(token.value, <<"-", "-">>)
          THEN LET key == Drop(token.value, 2)
               IN IF i + 1 <= Len(tokens)
                  THEN parseNamedArgs(tokens, i + 2,
                         [acc EXCEPT !.args = SetArg(@, key, parseValue(tokens[i + 1].value))])
                  ELSE [acc EXCEPT !.errors =
                          Append(@, MkParseError("Named argument missing value",
                                                 key, token.position))]
          ELSE parseNamedArgs(tokens, i + 1,
                 [acc EXCEPT !.errors =
                    Append(@, MkParseError("Unexpected token in named args",
                                           token.value, token.position))])

\* startIndex is the 0-based index of the source, -1 for no argument
parseArguments(options, tokens, startIndex) ==
  LET empty == [args |-> NoArgs, errors |-> <<>>]
  IN IF startIndex < 0 \/ startIndex >= Len(tokens) THEN empty
     ELSE IF options.argFormat = "equals" THEN parseEqualsArgs(tokens, startIndex + 1, empty)
     ELSE IF options.argFormat = "named" THEN parseNamedArgs(tokens, startIndex + 1, empty)
     ELSE parseTypedArgs(tokens, startIndex + 1, empty)

(***************************************************************************)
(* MessageParser.  An input is a record [t, v]: t = "string" with the text *)
(* v, or another JavaScript type (the argument is not a string).  A result *)
(* is optional: None is the null return.                                   *)
(***************************************************************************)
StringInput(s) == [t |-> "string", v |-> s]

\* findPrefix: the prefixes are tried in order from index i
RECURSIVE FindPrefixFrom(_, _, _)
FindPrefixFrom(options, message, i) ==
  IF i > Len(options.prefix) THEN [prefixUsed |-> <<>>, content |-> <<>>]
  ELSE LET prefix == options.prefix[i]
           checkMessage == IF options.caseSensitive THEN message ELSE ToLowerCase(message)
           checkPrefix == IF options.caseSensitive THEN prefix ELSE ToLowerCase(prefix)
       IN IF StartsWith(checkMessage, checkPrefix)
          THEN [prefixUsed |-> prefix, content |-> Drop(message, Len(prefix))]
          ELSE FindPrefixFrom(options, message, i + 1)

\* a findPrefix that falls back to the whole message when no prefix matches
findPrefixKeepsMessage(options, message) ==
  LET found == FindPrefixFrom(options, message, 1)
  IN IF found.prefixUsed = <<>> THEN [prefixUsed |-> <<>>, content |-> message]
     ELSE found

findPrefix(options, message) == FindPrefixFrom(options, message, 1)

isArgumentToken(options, token) ==
  LET value == token.value
      n == PrefixLen(value, WordChars)
  IN IF options.argFormat = "equals" THEN n >= 1 /\ Len(value) > n /\ value[n + 1] = "="
     ELSE IF options.argFormat = "named" THEN StartsWith(value, <<"-", "-">>)
     ELSE n >= 1 /\ Len(value) > n /\ value[n + 1] = "("

\* the for loop of extractCommandAndSubcommands from token i (1-based) on;
\* acc.command is optional: None while command === ''
RECURSIVE ExtractFrom(_, _, _, _)
ExtractFrom(options, tokens, i, acc) ==
  IF i > Len(tokens) THEN acc
  ELSE LET token == tokens[i]
       IN IF token.type = "mention" \/ token.type = "separator"
          THEN ExtractFrom(options, tokens, i + 1, acc)
          ELSE IF isArgumentToken(options, token)
          THEN [acc EXCEPT !.argStartIndex = i - 1]
          ELSE IF acc.command = <<>>
          THEN ExtractFrom(options, tokens, i + 1, [acc EXCEPT !.command = token.value])
          ELSE ExtractFrom(options, tokens, i + 1,
                           [acc EXCEPT !.subcommands = Append(@, token.value)])

extractCommandAndSubcommands(options, tokens) ==
  LET r == ExtractFrom(options, tokens, 1,
                       [command |-> <<>>, subcommands |-> <<>>, argStartIndex |-> -1])
  IN [command |-> r.command, subcommands |-> r.subcommands,
      argStartIndex |-> r.argStartIndex,
      parseErrors |-> IF r.command = <<>>
                      THEN <<MkParseError("No command found in message", <<>>, 0)>>
                      ELSE <<>>]

RECURSIVE extractMentions(_, _)
extractMentions(options, tokens) ==
  IF tokens = <<>> THEN <<>>
  ELSE parseMention(options, Head(tokens)) \o extractMentions(options, Tail(tokens))

\* the result object assembled at the end of MessageParser.parse; the fields
\* the validator and the facade add later are absent
MkResult(prefixUsed, command, subcommands, args, message, mentions, allErrors) ==
  [prefixUsed |-> prefixUsed, command |-> command, subcommands |-> subcommands,
   args |-> args, originalMessage |-> message, mentions |-> mentions,
   errors |-> IF allErrors # <<>> THEN Some(allErrors) ELSE None,
   resolvedCommand |-> None, resolvedSubcommands |-> None,
   validationErrors |-> None]

\* a case check that never rejects
CommandCaseIgnored(options, command) == FALSE

\* a case check that does not look at the option
CommandCaseAlways(options, command) == command # ToLowerCase(command)

\* options.caseSensitive && command !== command.toLowerCase()
CommandCaseMismatch(options, command) ==
  options.caseSensitive /\ command # ToLowerCase(command)

\* a concatenation that puts the argument-parser errors first
allErrorsArgumentsFirst(tokenErrors, parseErrors, argErrors) ==
  argErrors \o tokenErrors \o parseErrors

\* const allErrors = [...tokenErrors, ...parseErrors, ...argErrors]
allErrors(tokenErrors, parseErrors, argErrors) ==
  tokenErrors \o parseErrors \o argErrors

MessageParserParse(options, input) ==
  IF input.t # "string" \/ Trim(input.v) = <<>> THEN None
  ELSE LET message == input.v
           found == findPrefix(options, message)
       IN IF Trim(found.content) = <<>> THEN None
          ELSE LET tok == tokenize(options, Trim(found.content))
               IN IF tok.tokens = <<>> THEN None
                  ELSE LET ex == extractCommandAndSubcommands(options, tok.tokens)
                       IN IF CommandCaseMismatch(options, ex.command)
                          THEN None
                          ELSE LET parsed == parseArguments(options, tok.tokens,
                                                            ex.argStartIndex)
                               IN Some(MkResult(found.prefixUsed, ex.command,
                                                ex.subcommands, parsed.args, message,
                                                extractMentions(options, tok.tokens),
                                                allErrors(tok.errors, ex.parseErrors,
                                                          parsed.errors)))

(***************************************************************************)
(* Alias resolution (utils).  An object used as a map is a sequence of     *)
(* <<key, value>> pairs in insertion order, which is the order             *)
(* Object.entries and Map iteration follow; keys of the model are never    *)
(* integer-like.                                                           *)
(***************************************************************************)
Contains(seq, x) == \E i \in 1..Len(seq) : seq[i] = x

HasKey(entries, key) == \E i \in 1..Len(entries) : entries[i][1] = key

\* entries[key]; the key must be present
Lookup(entries, key) ==
  entries[CHOOSE i \in 1..Len(entries) : entries[i][1] = key][2]

\* the key of the first entry whose alias list includes name, optional
FirstAliasOwner(aliases, name) ==
  IF \E i \in 1..Len(aliases) : Contains(aliases[i][2], name)
  THEN Some(aliases[CHOOSE i \in 1..Len(aliases) :
                      /\ Contains(aliases[i][2], name)
                      /\ \A j \in 1..(i - 1) : ~Contains(aliases[j][2], name)][1])
  ELSE None

\* a resolution that does not record the text that was written
resolveCommandAliasUnrecorded(command, aliases) ==
  LET owner == FirstAliasOwner(aliases, command)
  IN [resolved |-> IF owner # None THEN owner[1] ELSE command, original |-> None]

resolveCommandAlias(command, aliases) ==
  LET owner == FirstAliasOwner(aliases, command)
  IN IF owner # None THEN [resolved |-> owner[1], original |-> Some(command)]
     ELSE [resolved |-> command, original |-> None]

\* a resolution whose originals hold only the entries that were aliases
resolveSubcommandAliasesOnly(subcommands, subAliases) ==
  LET owner(sub) == FirstAliasOwner(subAliases, sub)
      resolved == [i \in 1..Len(subcommands) |->
                     IF owner(subcommands[i]) # None THEN owner(subcommands[i])[1]
                     ELSE subcommands[i]]
      aliases == SelectSeq(subcommands, LAMBDA sub : owner(sub) # None)
  IN [resolved |-> resolved,
      originals |-> IF aliases # <<>> THEN Some(aliases) ELSE None]

resolveSubcommandAliases(subcommands, subAliases) ==
  LET owner(sub) == FirstAliasOwner(subAliases, sub)
      resolved == [i \in 1..Len(subcommands) |->
                     IF owner(subcommands[i]) # None THEN owner(subcommands[i])[1]
                     ELSE subcommands[i]]
      hasAliases == \E i \in 1..Len(subcommands) : owner(subcommands[i]) # None
  IN [resolved |-> resolved,
      originals |-> IF hasAliases THEN Some(subcommands) ELSE None]

(***************************************************************************)
(* Schemas.  Optional fields of a CommandSchema or ArgumentSchema are      *)
(* optional values; required: undefined is required: false.                *)
(***************************************************************************)
MkSchema(aliases, allowedSubcommands, args, subArgs, subAliases) ==
  [aliases |-> aliases, allowedSubcommands |-> allowedSubcommands, args |-> args,
   subArgs |-> subArgs, subAliases |-> subAliases]

\* an ArgumentSchema with only its type and required set
Rule(type, required) ==
  [type |-> type, required |-> required, minLength |-> None, maxLength |-> None,
   pattern |-> None, min |-> None, max |-> None, minItems |-> None,
   maxItems |-> None, allowedValues |-> None, customValidator |-> None,
   customErrorMessage |-> None]

\* new RegExp(pattern).test(text), for the patterns of the model: a literal
\* text, anchored at the start when it begins with ^
RegExpTest(pattern, text) ==
  IF pattern # <<>> /\ Head(pattern) = "^" THEN StartsWith(text, Tail(pattern))
  ELSE \E i \in 1..(Len(text) + 1) : MatchAt(text, pattern, i)

\* one validation message: its wording (kind), the argument and subcommand
\* it names, and the text it quotes
MkError(kind, arg, sub, text) == [kind |-> kind, arg |-> arg, sub |-> sub, text |-> text]

\* allowedValues.includes(value): SameValueZero, so an array or a Date is
\* never found and undefined is found only if listed (never, in the model)
AllowedIncludes(allowed, value) ==
  /\ value # None
  /\ value[1].t \in {"string", "number", "boolean"}
  /\ Contains(allowed, value[1])

\* the messages of the switch of validateType for every type but custom
RECURSIVE ArrayPatternErrors(_, _, _, _, _)
ArrayPatternErrors(pattern, items, i, arg, sub) ==
  IF i > Len(items) THEN <<>>
  ELSE (IF items[i].t = "string" /\ ~RegExpTest(pattern, items[i].v)
        THEN <<MkError("element must match pattern", Some(arg), sub, Some(<<i - 1>>))>>
        ELSE <<>>) \o ArrayPatternErrors(pattern, items, i + 1, arg, sub)

Check(cond, kind, arg, sub) ==
  IF cond THEN <<MkError(kind, Some(arg), sub, None)>> ELSE <<>>

TypeMismatch(arg, sub) == <<MkError("must be of type", Some(arg), sub, None)>>

\* a string case that reports only the first constraint violated
validateStringFirstOnly(rule, value, arg, sub) ==
  IF rule.minLength # None /\ Len(value.v) < rule.minLength[1]
  THEN <<MkError("must be at least characters long", Some(arg), sub, None)>>
  ELSE IF rule.maxLength # None /\ Len(value.v) > rule.maxLength[1]
  THEN <<MkError("must be at most characters long", Some(arg), sub, None)>>
  ELSE Check(rule.pattern # None /\ ~RegExpTest(rule.pattern[1], value.v),
             "must match pattern", arg, sub)

\* case 'string' for a value that is a string
validateString(rule, value, arg, sub) ==
  Check(rule.minLength # None /\ Len(value.v) < rule.minLength[1],
        "must be at least characters long", arg, sub)
  \o Check(rule.maxLength # None /\ Len(value.v) > rule.maxLength[1],
           "must be at most characters long", arg, sub)
  \o Check(rule.pattern # None /\ ~RegExpTest(rule.pattern[1], value.v),
           "must match pattern", arg, sub)

validateTypeSync(rule, value, arg, sub) ==
  IF rule.type = "string"
  THEN IF value.t = "string" THEN validateString(rule, value, arg, sub)
       ELSE TypeMismatch(arg, sub)
  ELSE IF rule.type = "number"
  THEN IF value.t = "number"
       THEN Check(rule.min # None /\ rule.min[1].t = "number" /\ value.v < rule.min[1].v,
                  "must be at least", arg, sub)
            \o Check(rule.max # None /\ rule.max[1].t = "number" /\ value.v > rule.max[1].v,
                     "must be at most", arg, sub)
       ELSE TypeMismatch(arg, sub)
  ELSE IF rule.type = "array"
  THEN IF value.t = "array"
       THEN Check(rule.minItems # None /\ Len(value.v) < rule.minItems[1],
                  "must have at least items", arg, sub)
            \o Check(rule.maxItems # None /\ Len(value.v) > rule.maxItems[1],
                     "must have at most items", arg, sub)
            \o (IF rule.pattern # None
                THEN ArrayPatternErrors(rule.pattern[1], value.v, 1, arg, sub)
                ELSE <<>>)
       ELSE TypeMismatch(arg, sub)
  ELSE IF rule.type = "date"
  THEN IF value.t = "date"
       THEN Check(rule.min # None /\ value.v < rule.min[1].v, "must be after", arg, sub)
            \o Check(rule.max # None /\ value.v > rule.max[1].v, "must be before", arg, sub)
       ELSE TypeMismatch(arg, sub)
  ELSE IF rule.type = "boolean"
  THEN IF value.t # "boolean" THEN TypeMismatch(arg, sub) ELSE <<>>
  ELSE <<>>

(***************************************************************************)
(* State.                                                                  *)
(***************************************************************************)
VARIABLES
  options,     \* the ParserOptions the parser was constructed with
  input,       \* the argument of the current (or last) parse call
  output,      \* [returned, value]: what that call returned, once it has
  schemas,     \* SchemaValidator.schemas: <<command, schema>> in insertion order
  lastParsed,  \* Parser.lastParsed, optional
  call,        \* the activation of Parser.parse in progress: where it stands
               \* (pc), the object it parsed, the schema it captured, the
               \* rules still to validate and the messages collected
  hist,        \* history: the last non-null value a call returned, the
               \* numbers of calls and registrations, and the schema most
               \* recently passed to registerSchema for each name
  logger       \* the Discord transport of a Logger: discordQueue,
               \* isProcessing, the timers set and the batches being sent

vars == <<options, input, output, schemas, lastParsed, call, hist, logger>>

\* a Logger after construction
NoLogger ==
  [discordQueue |-> <<>>, isProcessing |-> FALSE, timers |-> <<>>, sending |-> <<>>]

\* the command names schemas are registered under
SchemaNames == { <<"t">>, <<"u">> }

NoOutput == [returned |-> FALSE, rejected |-> FALSE, value |-> None]

\* the promise (or the synchronous call) gave value
Returned(value) == [returned |-> TRUE, rejected |-> FALSE, value |-> value]

\* the promise was rejected
Rejected == [returned |-> TRUE, rejected |-> TRUE, value |-> None]

\* no call of Parser.parse is in progress
IdleCall ==
  [pc |-> "idle", id |-> 0, result |-> None, schema |-> None, todo |-> <<>>,
   errors |-> <<>>, evaluated |-> <<>>, failures |-> <<>>]

NoHist ==
  [nonNull |-> None, calls |-> 0, regs |-> 0,
   latest |-> [n \in SchemaNames |-> None], replaced |-> {}]

(***************************************************************************)
(* Inputs of the MessageParser specification: a lead (a prefix, a prefix   *)
(* in another case, or none) followed by at most MaxWords words joined by  *)
(* the delimiter.  The empty word gives leading and doubled delimiters.    *)
(***************************************************************************)
Bang == <<"!">>

Space == <<" ">>

ParserConfigs ==
  { MkOptions(<<Bang>>, FALSE, Space, "typed", TRUE),
    MkOptions(<< <<"b", "!">>, Bang >>, TRUE, Space, "typed", TRUE),
    MkOptions(<<Bang>>, FALSE, Space, "equals", FALSE),
    MkOptions(<<Bang>>, FALSE, Space, "named", TRUE),
    MkOptions(<<Bang>>, TRUE, <<",">>, "undefined", TRUE),
    MkOptions(<< <<"b", "!">>, Bang >>, FALSE, Space, "equals", TRUE) }

Leads == { <<>>, Bang, <<"B", "!">> }

BaseWords == { <<>>, <<"t">>, <<"T">>, <<"s">>, <<"<", "@", "1", ">">> }

FormatWords(argFormat) ==
  IF argFormat = "equals"
  THEN { <<"k", "=", "1">>, <<"n", "=">>, <<"k", "=", "<", "@", "1", ">">> }
  ELSE IF argFormat = "named"
  THEN { <<"-", "-", "k">>, <<"-", "-", "n">>, <<"1">> }
  ELSE { <<"k", "(", "1", ")">>, <<"n", "(">>, <<"k", "(", "<", "@", "1", ">", ")">> }

Words(opts) == BaseWords \cup FormatWords(opts.argFormat)

RECURSIVE Join(_, _)
Join(words, sep) ==
  IF words = <<>> THEN <<>>
  ELSE IF Len(words) = 1 THEN words[1]
  ELSE words[1] \o sep \o Join(Tail(words), sep)

WordLists(opts) == UNION { [1..n -> Words(opts)] : n \in 0..MaxWords }

NonStringInputs == { [t |-> "undefined", v |-> <<>>], [t |-> "number", v |-> <<>>] }

ParserInputs(opts) ==
  { StringInput(lead \o Join(ws, opts.delimiter)) : lead \in Leads, ws \in WordLists(opts) }
    \cup NonStringInputs

(***************************************************************************)
(* The MessageParser specification: one call of MessageParser.parse on a   *)
(* parser constructed with any of the configurations.                      *)
(***************************************************************************)
InitParse ==
  /\ options \in ParserConfigs
  /\ input \in ParserInputs(options)
  /\ output = NoOutput
  /\ schemas = <<>>
  /\ lastParsed = None
  /\ call = IdleCall
  /\ hist = NoHist
  /\ logger = NoLogger

MessageParse ==
  /\ ~output.returned
  /\ output' = Returned(MessageParserParse(options, input))
  /\ UNCHANGED <<options, input, schemas, lastParsed, call, hist, logger>>

NextParse == MessageParse

SpecParse == InitParse /\ [][NextParse]_vars

(***************************************************************************)
(* Definitions the properties of MessageParser.parse are stated with.      *)
(***************************************************************************)
\* the message starts with the prefix, compared as the configuration says
MatchesPrefix(opts, message, prefix) ==
  IF opts.caseSensitive THEN StartsWith(message, prefix)
  ELSE StartsWith(ToLowerCase(message), ToLowerCase(prefix))

\* index of the first configured prefix the message starts with, 0 if none
MatchedPrefixIndex(opts, message) ==
  IF \E i \in 1..Len(opts.prefix) : MatchesPrefix(opts, message, opts.prefix[i])
  THEN CHOOSE i \in 1..Len(opts.prefix) :
         /\ MatchesPrefix(opts, message, opts.prefix[i])
         /\ \A j \in 1..(i - 1) : ~MatchesPrefix(opts, message, opts.prefix[j])
  ELSE 0

\* what follows the matched prefix
AfterPrefix(opts, message) ==
  Drop(message, Len(opts.prefix[MatchedPrefixIndex(opts, message)]))

NotAString == input.t # "string"

BlankMessage == input.t = "string" /\ AllIn(input.v, WhiteSpace)

NoPrefixMessage ==
  input.t = "string" /\ ~AllIn(input.v, WhiteSpace)
    /\ MatchedPrefixIndex(options, input.v) = 0

BarePrefixMessage ==
  input.t = "string" /\ ~AllIn(input.v, WhiteSpace)
    /\ MatchedPrefixIndex(options, input.v) # 0
    /\ AllIn(AfterPrefix(options, input.v), WhiteSpace)

\* a prefix matches and something other than whitespace follows it
PrefixedMessage ==
  input.t = "string"
    /\ MatchedPrefixIndex(options, input.v) # 0
    /\ ~AllIn(AfterPrefix(options, input.v), WhiteSpace)

\* the tokens of a prefixed message
InputTokens == tokenize(options, Trim(AfterPrefix(options, input.v))).tokens

\* C1: parse returns null for an input that is not a string, is empty or
\* whitespace-only, starts with none of the configured prefixes, or has only
\* whitespace after the prefix it matches.
C1_NullForNoCommand ==
  (output.returned
     /\ (NotAString \/ BlankMessage \/ NoPrefixMessage \/ BarePrefixMessage))
    => output.value = None

C1_Witness ==
  /\ output.returned
  /\ output.value = None
  /\ NoPrefixMessage
  /\ Len(Trim(input.v)) >= 3

\* C2 as stated: a message that starts with a configured prefix and has a
\* non-whitespace character after it always yields a non-null result.
C2_PrefixedNeverNull ==
  (output.returned /\ PrefixedMessage) => output.value # None

HasUpper(text) == \E i \in 1..Len(text) : text[i] \in Upper

\* the command of a prefixed message is rejected for its case
CaseRejected ==
  options.caseSensitive
    /\ HasUpper(extractCommandAndSubcommands(options, InputTokens).command)

\* what follows the prefix is made of delimiter characters only: no token
OnlyDelimiters ==
  LET content == Trim(AfterPrefix(options, input.v))
  IN \A i \in 1..Len(content) : <<content[i]>> = options.delimiter

\* C2 amended: a prefixed message yields null exactly when what follows the
\* prefix holds no token, or caseSensitive is set and the extracted command
\* has an uppercase character; null is returned only then and in the
\* no-prefix, empty and bare-prefix cases.
C2_NullExactly ==
  output.returned =>
    (output.value = None <=>
       \/ NotAString \/ BlankMessage \/ NoPrefixMessage \/ BarePrefixMessage
       \/ (PrefixedMessage /\ (OnlyDelimiters \/ CaseRejected)))

C2_Witness ==
  /\ output.returned
  /\ PrefixedMessage
  /\ output.value # None
  /\ output.value[1].errors # None
  /\ options.caseSensitive

\* the result of a call that returned one
Result == output.value[1]

HasResult == output.returned /\ output.value # None

\* the token has the shape isArgumentToken tests for the configured format
ArgumentShaped(token) == isArgumentToken(options, token)

\* index of the first argument-shaped token, Len + 1 if there is none
FirstArgumentShaped(tokens) ==
  IF \E i \in 1..Len(tokens) : ArgumentShaped(tokens[i])
  THEN CHOOSE i \in 1..Len(tokens) :
         ArgumentShaped(tokens[i]) /\ \A j \in 1..(i - 1) : ~ArgumentShaped(tokens[j])
  ELSE Len(tokens) + 1

\* the values of the non-mention tokens among the first n, in order
RECURSIVE NonMentionValues(_, _)
NonMentionValues(tokens, n) ==
  IF n = 0 THEN <<>>
  ELSE NonMentionValues(tokens, n - 1)
         \o (IF tokens[n].type = "mention" THEN <<>> ELSE <<tokens[n].value>>)

\* C3: command is the first token that is neither a mention nor
\* argument-shaped, subcommands are exactly the later non-mention tokens
\* before the first argument-shaped token, in message order, and no token at
\* or after the first argument-shaped token becomes a subcommand.
C3_CommandAndSubcommands ==
  HasResult =>
    LET tokens == InputTokens
        before == NonMentionValues(tokens, FirstArgumentShaped(tokens) - 1)
    IN /\ Result.command = (IF before = <<>> THEN <<>> ELSE Head(before))
       /\ Result.subcommands = (IF before = <<>> THEN <<>> ELSE Tail(before))

\* the argument region: the tokens from argStartIndex on; start is the
\* 1-based index of its first token, 0 if there is none
RegionStart(tokens) == extractCommandAndSubcommands(options, tokens).argStartIndex + 1

InRegion(tokens, start, i) == start >= 1 /\ i \in start..Len(tokens)

\* the errors of the result with this wording
ErrorsOfKind(kinds) ==
  LET errs == IF Result.errors = None THEN <<>> ELSE Result.errors[1]
  IN { i \in 1..Len(errs) : errs[i].kind \in kinds }

ErrorAt(i) == Result.errors[1][i]

\* typed and equals: the token fits the format
FitsShape(token) ==
  IF options.argFormat = "equals" THEN MatchEquals(token.value) # <<>>
  ELSE MatchTyped(token.value) # <<>>

ShapeKey(token) ==
  IF options.argFormat = "equals" THEN MatchEquals(token.value)[1]
  ELSE MatchTyped(token.value)[1]

\* named: the part each token of the region plays, by its place: a key
\* (--key), the value that follows a key, or a token where a key was expected
RECURSIVE NamedRole(_, _, _)
NamedRole(tokens, start, i) ==
  IF i > start /\ NamedRole(tokens, start, i - 1) = "key" THEN "value"
  ELSE IF StartsWith(tokens[i].value, <<"-", "-">>) THEN "key"
  ELSE "unexpected"

\* the token at i does not fit the configured format
BadArgument(tokens, start, i) ==
  /\ InRegion(tokens, start, i)
  /\ IF options.argFormat = "named"
     THEN \/ NamedRole(tokens, start, i) = "unexpected"
          \/ (NamedRole(tokens, start, i) = "key" /\ i = Len(tokens))
     ELSE ~FitsShape(tokens[i])

\* the token at i starts a well-formed argument, and the key it gives
GoodArgument(tokens, start, i) ==
  /\ InRegion(tokens, start, i)
  /\ IF options.argFormat = "named"
     THEN NamedRole(tokens, start, i) = "key" /\ i < Len(tokens)
     ELSE FitsShape(tokens[i])

ArgumentKey(tokens, i) ==
  IF options.argFormat = "named" THEN Drop(tokens[i].value, 2)
  ELSE ShapeKey(tokens[i])

\* the text the error for the bad token at i quotes
NamedText(tokens, start, i) ==
  IF options.argFormat = "named" /\ NamedRole(tokens, start, i) = "key"
  THEN Drop(tokens[i].value, 2)
  ELSE tokens[i].value

FormatErrorKinds ==
  {"Invalid typed argument format", "Invalid equals argument format",
   "Named argument missing value", "Unexpected token in named args"}

registerSchemaKeepsFirst(registered, command, schema) ==
  IF HasKey(registered, command) THEN registered
  ELSE Append(registered, <<command, schema>>)

\* this.schemas.set(command, schema): a Map keeps the place of a key it has
registerSchema(registered, command, schema) ==
  IF HasKey(registered, command)
  THEN [i \in 1..Len(registered) |->
          IF registered[i][1] = command THEN <<command, schema>> ELSE registered[i]]
  ELSE Append(registered, <<command, schema>>)

\* this.schemas.get(command), optional
getSchema(registered, command) ==
  IF HasKey(registered, command) THEN Some(Lookup(registered, command)) ELSE None

RECURSIVE getCommandAliases(_)
getCommandAliases(registered) ==
  IF registered = <<>> THEN <<>>
  ELSE LET command == Head(registered)[1]
           schema == Head(registered)[2]
       IN (IF schema.aliases # None /\ schema.aliases[1] # <<>>
           THEN << <<command, schema.aliases[1]>> >> ELSE <<>>)
          \o getCommandAliases(Tail(registered))

getSubcommandAliases(registered, command) ==
  LET schema == getSchema(registered, command)
  IN IF schema # None /\ schema[1].subAliases # None THEN schema[1].subAliases[1]
     ELSE <<>>

\* the loop over resolvedSubcommands that checks allowedSubcommands
RECURSIVE SubcommandErrors(_, _, _)
SubcommandErrors(allowed, subcommands, command) ==
  IF subcommands = <<>> THEN <<>>
  ELSE (IF ~Contains(allowed, Head(subcommands))
        THEN <<MkError("is not allowed for command", None, Some(Head(subcommands)),
                       Some(command))>>
        ELSE <<>>) \o SubcommandErrors(allowed, Tail(subcommands), command)

(***************************************************************************)
(* validateArguments: the rules to validate, in the order of the two       *)
(* loops.  A work item is [arg, sub, rule], sub optional.                  *)
(***************************************************************************)
\* an override set that is always empty
overriddenArgsNone(subcommands, schema) == {}

overriddenArgs(subcommands, schema) ==
  IF schema.subArgs = None THEN {}
  ELSE LET subArgs == schema.subArgs[1]
       IN UNION { { Lookup(subArgs, subcommands[i])[j][1] :
                      j \in 1..Len(Lookup(subArgs, subcommands[i])) } :
                  i \in { i \in 1..Len(subcommands) : HasKey(subArgs, subcommands[i]) } }

RECURSIVE RuleWork(_, _, _)
RuleWork(rules, sub, skipped) ==
  IF rules = <<>> THEN <<>>
  ELSE (IF Head(rules)[1] \in skipped THEN <<>>
        ELSE <<[arg |-> Head(rules)[1], sub |-> sub, rule |-> Head(rules)[2]]>>)
       \o RuleWork(Tail(rules), sub, skipped)

RECURSIVE SubcommandWork(_, _)
SubcommandWork(subArgs, subcommands) ==
  IF subcommands = <<>> THEN <<>>
  ELSE (IF HasKey(subArgs, Head(subcommands))
        THEN RuleWork(Lookup(subArgs, Head(subcommands)), Some(Head(subcommands)), {})
        ELSE <<>>) \o SubcommandWork(subArgs, Tail(subcommands))

\* the two loops in the other order: subcommand rules before global rules
validateArgumentsScopedFirst(parsed, schema) ==
  (IF schema.subArgs = None THEN <<>>
   ELSE SubcommandWork(schema.subArgs[1], parsed.subcommands))
  \o (IF schema.args = None THEN <<>>
      ELSE RuleWork(schema.args[1], None, overriddenArgs(parsed.subcommands, schema)))

validateArguments(parsed, schema) ==
  (IF schema.args = None THEN <<>>
   ELSE RuleWork(schema.args[1], None, overriddenArgs(parsed.subcommands, schema)))
  \o (IF schema.subArgs = None THEN <<>>
      ELSE SubcommandWork(schema.subArgs[1], parsed.subcommands))

\* validate up to its call of validateArguments
validate(registered, parsed) ==
  LET rc == resolveCommandAlias(parsed.command, getCommandAliases(registered))
      rs == resolveSubcommandAliases(parsed.subcommands,
                                     getSubcommandAliases(registered, rc.resolved))
      updated == [parsed EXCEPT !.command = rc.resolved,
                                !.resolvedCommand = rc.original,
                                !.subcommands = rs.resolved,
                                !.resolvedSubcommands = rs.originals]
      schema == getSchema(registered, rc.resolved)
  IN [result |-> updated, schema |-> schema,
      errors |-> IF schema # None /\ schema[1].allowedSubcommands # None
                 THEN SubcommandErrors(schema[1].allowedSubcommands[1], rs.resolved,
                                       rc.resolved)
                 ELSE <<>>,
      todo |-> IF schema # None THEN validateArguments(updated, schema[1]) ELSE <<>>]

(***************************************************************************)
(* validateArgument and the custom case of validateType.  A custom         *)
(* validator of the model returns true, returns false, throws an Error, or *)
(* returns a promise ("promise") that later settles with true, with false  *)
(* or by rejecting with an Error.                                          *)
(***************************************************************************)
ArgValue(args, key) == IF HasArg(args, key) THEN Some(args[key]) ELSE None

\* validateArgument before its call of validateType
validateArgument(rule, value, arg, command, sub) ==
  LET allowed ==
        IF rule.allowedValues # None /\ ~AllowedIncludes(rule.allowedValues[1], value)
        THEN <<MkError("must be one of", Some(arg), sub, value)>>
        ELSE <<>>
  IN IF rule.required /\ value = None
     THEN [errors |-> allowed \o <<MkError("is required for command", Some(arg), sub,
                                            Some(command))>>,
           proceed |-> FALSE]
     ELSE [errors |-> allowed, proceed |-> value # None]

\* the message of the Error a validator throws or rejects with
ErrorMessage == <<"b", "o", "o", "m">>

\* a failure of the validator that escapes validateType
customFailureEscapes(arg, sub, message) == [errors |-> <<>>, propagates |-> TRUE]

\* the catch block around the call of the validator
customFailure(arg, sub, message) ==
  [errors |-> <<MkError("custom validation error", Some(arg), sub, Some(message))>>,
   propagates |-> FALSE]

\* the custom case once the validator has given outcome
customValidation(rule, arg, sub, outcome) ==
  IF outcome = "true" THEN [errors |-> <<>>, propagates |-> FALSE]
  ELSE IF outcome = "false"
  THEN [errors |-> <<IF rule.customErrorMessage # None /\ rule.customErrorMessage[1] # <<>>
                     THEN MkError("custom message", None, None, rule.customErrorMessage)
                     ELSE MkError("failed custom validation", Some(arg), sub, None)>>,
        propagates |-> FALSE]
  ELSE customFailure(arg, sub, ErrorMessage)

\* The activation runs until it awaits a pending validator or has no rule
\* left.  Conclude resumes it with the outcome of the validator of the rule
\* at the head of todo.
RECURSIVE Advance(_)
RECURSIVE Conclude(_, _)
\* a call of the validator whose promise is not awaited: the loop goes on
\* to the next rule and the outcome is never looked at
validatorNotAwaited(seen) == Advance([seen EXCEPT !.todo = Tail(@)])

\* `await argSchema.customValidator(value)` on a pending promise
awaitValidator(seen) == [seen EXCEPT !.pc = "awaiting"]

Advance(act) ==
  IF act.todo = <<>> THEN [act EXCEPT !.pc = "validated"]
  ELSE LET item == Head(act.todo)
           value == ArgValue(act.result[1].args, item.arg)
           checks == validateArgument(item.rule, value, item.arg,
                                      act.result[1].command, item.sub)
           seen == [act EXCEPT !.errors = @ \o checks.errors,
                               !.evaluated = Append(@, item)]
       IN IF ~checks.proceed THEN Advance([seen EXCEPT !.todo = Tail(@)])
          ELSE IF item.rule.type # "custom"
          THEN Advance([seen EXCEPT !.todo = Tail(@),
                                    !.errors = @ \o validateTypeSync(item.rule, value[1],
                                                                     item.arg, item.sub)])
          ELSE IF item.rule.customValidator = None
          THEN Advance([seen EXCEPT !.todo = Tail(@)])
          ELSE IF item.rule.customValidator[1] = "promise"
          THEN awaitValidator(seen)
          ELSE Conclude(seen, item.rule.customValidator[1])

Conclude(act, outcome) ==
  LET item == Head(act.todo)
      res == customValidation(item.rule, item.arg, item.sub, outcome)
      failed == IF outcome \in {"throws", "rejects"} THEN <<item>> ELSE <<>>
  IN IF res.propagates
     THEN [act EXCEPT !.pc = "rejected", !.failures = @ \o failed]
     ELSE Advance([act EXCEPT !.todo = Tail(@), !.errors = @ \o res.errors,
                              !.failures = @ \o failed])

(***************************************************************************)
(* Inputs of the Parser specification: a parser with prefix "!" and typed  *)
(* arguments, a catalog of schemas and a set of messages that between them *)
(* reach every branch of the validator modelled above.                     *)
(***************************************************************************)
MaxCalls == 2

MaxRegs == 2

FacadeOptions == MkOptions(<<Bang>>, FALSE, Space, "typed", TRUE)

KeyK == <<"k">>

KeyN == <<"n">>

SubS == <<"s">>

\* k required number; n a string of at most one character starting with z;
\* no subcommand s allowed
LengthSchema ==
  MkSchema(None, Some(<< <<"x">> >>),
           Some(<< <<KeyK, Rule("number", TRUE)>>,
                   <<KeyN, [Rule("string", FALSE) EXCEPT
                              !.minLength = Some(3), !.maxLength = Some(1),
                              !.pattern = Some(<<"^", "z">>)]>> >>),
           None, None)

\* aliases a and t; k a required number globally, a string under subcommand s,
\* and a required string n under subcommand x; z an alias of subcommand s
ScopedSchema ==
  MkSchema(Some(<< <<"a">>, <<"t">> >>), None,
           Some(<< <<KeyK, [Rule("number", TRUE) EXCEPT !.max = Some(NumberValue(0))]>> >>),
           Some(<< <<SubS, << <<KeyK, Rule("string", FALSE)>> >> >>,
                   << <<"x">>, << <<KeyN, Rule("string", TRUE)>> >> >> >>),
           Some(<< <<SubS, << <<"z">> >> >> >>))

\* k checked by a validator that throws, then n, required, by one that
\* returns a promise
ThrowingSchema ==
  MkSchema(None, None,
           Some(<< <<KeyK, [Rule("custom", FALSE) EXCEPT !.customValidator = Some("throws")]>>,
                   <<KeyN, [Rule("custom", TRUE) EXCEPT !.customValidator = Some("promise")]>> >>),
           None, None)

\* k checked by a validator that returns a promise, then n by one that
\* returns false and has its own message
PendingSchema ==
  MkSchema(None, None,
           Some(<< <<KeyK, [Rule("custom", FALSE) EXCEPT !.customValidator = Some("promise")]>>,
                   <<KeyN, [Rule("custom", TRUE) EXCEPT
                              !.customValidator = Some("false"),
                              !.customErrorMessage = Some(<<"m">>)]>> >>),
           None, None)

\* n optional and one of "ab"; k required and one of 1
ChoiceSchema ==
  MkSchema(None, None,
           Some(<< <<KeyN, [Rule("string", FALSE) EXCEPT
                              !.allowedValues = Some(<<StringValue(<<"a", "b">>)>>)]>>,
                   <<KeyK, [Rule("number", TRUE) EXCEPT
                              !.allowedValues = Some(<<NumberValue(1)>>)]>> >>),
           None, None)

Catalog == { LengthSchema, ScopedSchema, ThrowingSchema, PendingSchema, ChoiceSchema }

ArgK == <<"k", "(", "1", ")">>

ArgN == <<"n", "(", "a", "b", ")">>

Message(words) == Bang \o Join(words, Space)

Messages ==
  { <<"t">>,
    Message(<< <<"t">> >>),
    Message(<< <<"t">>, ArgN >>),
    Message(<< <<"t">>, ArgK, ArgN >>),
    Message(<< <<"t">>, SubS, ArgK >>),
    Message(<< <<"t">>, <<"x">>, <<"z">> >>),
    Message(<< <<"u">>, ArgK >>),
    Message(<< <<"a">>, ArgK >>) }

\* this.messageParser.parse(message) for each message of the model, by the
\* MessageParser the constructor builds from the options
MessageParserResults ==
  [message \in Messages |-> MessageParserParse(FacadeOptions, StringInput(message))]

(***************************************************************************)
(* The Parser specification.  The caller is sequential: it awaits each     *)
(* parse call before it registers a schema or starts the next call.        *)
(***************************************************************************)
Init ==
  /\ options = FacadeOptions
  /\ input = StringInput(<<>>)
  /\ output = NoOutput
  /\ schemas = <<>>
  /\ lastParsed = None
  /\ call = IdleCall
  /\ hist = NoHist
  /\ logger = NoLogger

\* Parser.getLastParsed
getLastParsed == lastParsed

\* Parser.registerSchema(command, schema)
RegisterSchema ==
  \E command \in SchemaNames, schema \in Catalog :
    /\ call.pc \in {"idle", "done"}
    /\ hist.regs < MaxRegs
    /\ schemas' = registerSchema(schemas, command, schema)
    /\ hist' = [hist EXCEPT
                  !.regs = @ + 1,
                  !.latest[command] = Some(schema),
                  !.replaced = IF hist.latest[command] \notin {None, Some(schema)}
                               THEN @ \cup {command} ELSE @]
    /\ UNCHANGED <<options, input, output, lastParsed, call, logger>>

\* Parser.parse(message) up to its first suspension: MessageParser.parse,
\* then validate as far as it runs before a validator's promise is pending
ParseStart ==
  \E message \in Messages :
    /\ call.pc \in {"idle", "done"}
    /\ hist.calls < MaxCalls
    /\ input' = StringInput(message)
    /\ hist' = [hist EXCEPT !.calls = @ + 1]
    /\ LET parsed == MessageParserResults[message]
           begun == [IdleCall EXCEPT !.id = hist.calls + 1]
       IN IF parsed = None
          THEN /\ call' = [begun EXCEPT !.pc = "done"]
               /\ output' = Returned(None)
          ELSE LET v == validate(schemas, parsed[1])
               IN /\ call' = Advance([begun EXCEPT !.pc = "running",
                                                   !.result = Some(v.result),
                                                   !.schema = v.schema,
                                                   !.todo = v.todo,
                                                   !.errors = v.errors])
                  /\ output' = NoOutput
    /\ UNCHANGED <<options, schemas, lastParsed, logger>>

\* the promise of the validator being awaited settles
ValidatorSettles ==
  \E outcome \in {"true", "false", "rejects"} :
    /\ call.pc = "awaiting"
    /\ call' = Conclude(call, outcome)
    /\ UNCHANGED <<options, input, output, schemas, lastParsed, hist, logger>>

\* a store that keeps the previous value when the result has validation errors
storeOnlyValid(previous, result) ==
  IF result.obj.validationErrors = None THEN Some(result) ELSE previous

\* a store that keeps the result of the call that was started later
storeNewestCall(previous, result) ==
  IF previous # None /\ previous[1].ref > result.ref THEN previous ELSE Some(result)

\* this.lastParsed = result
storeLastParsed(previous, result) == Some(result)

\* Parser.parse after `await this.schemaValidator.validate(result)`
ParseFinish ==
  /\ call.pc \in {"validated", "rejected"}
  /\ call' = [call EXCEPT !.pc = "done"]
  /\ IF call.pc = "rejected"
     THEN /\ output' = Rejected
          /\ UNCHANGED <<lastParsed, hist>>
     ELSE LET result == [ref |-> call.id,
                         obj |-> [call.result[1] EXCEPT
                                    !.validationErrors =
                                      IF Len(call.errors) > 0 THEN Some(call.errors)
                                      ELSE None]]
          IN /\ lastParsed' = storeLastParsed(lastParsed, result)
             /\ output' = Returned(Some(result))
             /\ hist' = [hist EXCEPT !.nonNull = Some(result)]
  /\ UNCHANGED <<options, input, schemas, logger>>

Next == RegisterSchema \/ ParseStart \/ ValidatorSettles \/ ParseFinish

Spec == Init /\ [][Next]_vars

(***************************************************************************)
(* Definitions the properties of the Parser are stated with.               *)
(***************************************************************************)
Indices(seq) == 1..Len(seq)

\* the call in progress, or the last one made, parsed its message to a command
Parsed == call.pc # "idle" /\ call.result # None

\* its validation has gone through every rule
Validated == Parsed /\ call.pc \in {"validated", "done"}

\* it has returned
Finished == Parsed /\ call.pc = "done" /\ output.returned

ParsedCommand == call.result[1]

\* the rules its validation has to go through
WorkList ==
  IF call.schema = None THEN <<>> ELSE validateArguments(ParsedCommand, call.schema[1])

\* the messages collected about the argument of a work item
ErrorsAbout(item) ==
  { e \in Indices(call.errors) :
      call.errors[e].arg = Some(item.arg) /\ call.errors[e].sub = item.sub }

ErrorsOfKindAbout(item, kind) == { e \in ErrorsAbout(item) : call.errors[e].kind = kind }

\* C5: getLastParsed returns the very object returned by the most recent
\* parse call that returned non-null, whether or not it carries errors or
\* validationErrors, and null if no call has returned non-null yet; a call
\* that returns null leaves the stored value unchanged.
C5_LastParsedIsLastNonNull ==
  /\ getLastParsed = hist.nonNull
  /\ output.returned /\ output.value # None => getLastParsed = output.value
  /\ hist.calls = 0 => getLastParsed = None

C5_Witness ==
  /\ hist.calls = 2
  /\ output.returned /\ output.value = None
  /\ getLastParsed # None
  /\ getLastParsed[1].ref = 1
  /\ getLastParsed[1].obj.validationErrors # None

\* the call has not returned yet: no schema has been registered since it
\* started
InProgress == Parsed /\ call.pc # "done"

\* the schema most recently passed to registerSchema under the name
SchemaInForce(name) == IF name \in SchemaNames THEN hist.latest[name] ELSE None

RulesOf(schema) ==
  (IF schema.args = None THEN {}
   ELSE { schema.args[1][i][2] : i \in Indices(schema.args[1]) })
  \cup (IF schema.subArgs = None THEN {}
        ELSE UNION { { schema.subArgs[1][i][2][j][2] : j \in Indices(schema.subArgs[1][i][2]) } :
                     i \in Indices(schema.subArgs[1]) })

\* C6: registerSchema is last-write-wins per command name: a validation
\* applies the rules of the schema most recently registered under the
\* command's name and no others, and a registration leaves the schemas
\* registered under other names as they were.
C6_LastRegistrationWins ==
  /\ \A name \in SchemaNames : getSchema(schemas, name) = hist.latest[name]
  /\ InProgress =>
       LET inForce == SchemaInForce(ParsedCommand.command)
       IN /\ call.schema = inForce
          /\ \A i \in Indices(call.evaluated) :
               inForce # None /\ call.evaluated[i].rule \in RulesOf(inForce[1])

C6_Witness ==
  /\ InProgress /\ call.pc = "validated"
  /\ ParsedCommand.command \in hist.replaced
  /\ call.schema = hist.latest[ParsedCommand.command]
  /\ call.evaluated # <<>>

Absent(item) == ~HasArg(ParsedCommand.args, item.arg)

\* C7: for a rule whose argument is absent from the message, validation
\* emits exactly one message, the required-argument error, when the rule is
\* required, and nothing when it is not, whatever else the rule declares.
C7_AbsentArgument ==
  Validated =>
    \A i \in Indices(call.evaluated) :
      LET item == call.evaluated[i]
      IN Absent(item) =>
           IF item.rule.required
           THEN \E e \in ErrorsAbout(item) :
                  /\ ErrorsAbout(item) = {e}
                  /\ call.errors[e].kind = "is required for command"
           ELSE ErrorsAbout(item) = {}

PresentSubcommands ==
  { ParsedCommand.subcommands[i] : i \in Indices(ParsedCommand.subcommands) }

HasSubRule(schema, sub, arg) ==
  /\ schema.subArgs # None
  /\ HasKey(schema.subArgs[1], sub)
  /\ HasKey(Lookup(schema.subArgs[1], sub), arg)

GlobalEvaluations(arg) ==
  { i \in Indices(call.evaluated) :
      call.evaluated[i].arg = arg /\ call.evaluated[i].sub = None }

\* C8: when a subcommand present in the command has a subArgs rule for X the
\* global rule for X is not evaluated at all; when none has, the global rule
\* is evaluated; subArgs rules of subcommands that are not present are not
\* evaluated and produce no errors.
C8_SubArgsOverride ==
  Validated /\ call.schema # None =>
    LET schema == call.schema[1]
    IN /\ schema.args # None =>
            \A j \in Indices(schema.args[1]) :
              LET X == schema.args[1][j][1]
              IN IF \E sub \in PresentSubcommands : HasSubRule(schema, sub, X)
                 THEN /\ GlobalEvaluations(X) = {}
                      /\ ErrorsAbout([arg |-> X, sub |-> None]) = {}
                 ELSE \E i \in GlobalEvaluations(X) :
                        /\ GlobalEvaluations(X) = {i}
                        /\ call.evaluated[i].rule = schema.args[1][j][2]
       /\ \A i \in Indices(call.evaluated) :
            call.evaluated[i].sub # None =>
              call.evaluated[i].sub[1] \in PresentSubcommands
       /\ \A e \in Indices(call.errors) :
            call.errors[e].arg # None /\ call.errors[e].sub # None =>
              call.errors[e].sub[1] \in PresentSubcommands

C8_Witness ==
  /\ Validated /\ call.schema # None
  /\ \E i \in Indices(call.evaluated) :
       LET item == call.evaluated[i]
       IN /\ item.sub # None
          /\ call.schema[1].args # None /\ HasKey(call.schema[1].args[1], item.arg)
          /\ GlobalEvaluations(item.arg) = {}
          /\ ErrorsOfKindAbout(item, "must be of type") # {}
  /\ \E sub \in { call.schema[1].subArgs[1][i][1] : i \in Indices(call.schema[1].subArgs[1]) } :
       sub \notin PresentSubcommands

\* the constraints the value of a work item violates, by the wording of
\* their messages
Violations(item) ==
  LET rule == item.rule
      value == ArgValue(ParsedCommand.args, item.arg)
  IN IF value = None
     THEN IF rule.required THEN {"is required for command"} ELSE {}
     ELSE (IF rule.allowedValues # None /\ ~Contains(rule.allowedValues[1], value[1])
           THEN {"must be one of"} ELSE {})
          \cup
          (IF rule.type \in {"string", "number"} /\ value[1].t # rule.type
           THEN {"must be of type"}
           ELSE IF rule.type = "string"
           THEN (IF rule.minLength # None /\ Len(value[1].v) < rule.minLength[1]
                 THEN {"must be at least characters long"} ELSE {})
                \cup (IF rule.maxLength # None /\ Len(value[1].v) > rule.maxLength[1]
                      THEN {"must be at most characters long"} ELSE {})
                \cup (IF rule.pattern # None /\ ~RegExpTest(rule.pattern[1], value[1].v)
                      THEN {"must match pattern"} ELSE {})
           ELSE IF rule.type = "number"
           THEN (IF rule.min # None /\ value[1].v < rule.min[1].v
                 THEN {"must be at least"} ELSE {})
                \cup (IF rule.max # None /\ value[1].v > rule.max[1].v
                      THEN {"must be at most"} ELSE {})
           ELSE {})

\* C9: validation is exhaustive and never discards the parse: every
\* violation of every rule has its own message in validationErrors, and parse
\* returns the non-null result with every parsed argument in args.
C9_ExhaustiveValidation ==
  /\ Validated =>
       \A i \in Indices(WorkList) : \A kind \in Violations(WorkList[i]) :
         Cardinality(ErrorsOfKindAbout(WorkList[i], kind)) = 1
  /\ Finished =>
       /\ ~output.rejected /\ output.value # None
       /\ output.value[1].obj.args = MessageParserResults[input.v][1].args
       /\ output.value[1].obj.validationErrors =
            (IF call.errors = <<>> THEN None ELSE Some(call.errors))

C9_Witness ==
  /\ Finished
  /\ \E i, j \in Indices(WorkList) :
       /\ i # j
       /\ Violations(WorkList[i]) # {}
       /\ Cardinality(Violations(WorkList[j])) >= 3
  /\ output.value # None
  /\ Len(output.value[1].obj.validationErrors[1]) >= 4
  /\ HasArg(output.value[1].obj.args, KeyN)

\* C10: a custom validator that throws or whose promise rejects never makes
\* parse reject: the failure becomes one "custom validation error" message
\* with the error's text, the remaining rules are still validated, and the
\* result is returned and stored as last parsed.
C10_ValidatorFailureContained ==
  /\ ~output.rejected
  /\ call.pc # "rejected"
  /\ \A i \in Indices(call.failures) :
       \E e \in ErrorsAbout(call.failures[i]) :
         /\ ErrorsOfKindAbout(call.failures[i], "custom validation error") = {e}
         /\ call.errors[e].text = Some(ErrorMessage)
  /\ Validated /\ call.failures # <<>> => call.evaluated = WorkList
  /\ Finished /\ call.failures # <<>> =>
       /\ output.value # None
       /\ getLastParsed = output.value
       /\ output.value[1].obj.validationErrors = Some(call.errors)

C10_Witness ==
  /\ Finished
  /\ \E i, j \in Indices(call.failures) :
       /\ call.failures[i].rule.customValidator = Some("throws")
       /\ call.failures[j].rule.customValidator = Some("promise")
  /\ getLastParsed = output.value
  /\ Len(call.evaluated) >= 2

\* the command text of the message, as MessageParser.parse extracted it
WrittenCommand == MessageParserResults[input.v][1].command

\* the registered commands whose schema declares the text as an alias
DeclaringCommands(text) ==
  { name \in SchemaNames :
      /\ hist.latest[name] # None
      /\ hist.latest[name][1].aliases # None
      /\ Contains(hist.latest[name][1].aliases[1], text) }

\* C11: if the command text is a declared alias of a registered command,
\* command is that command's name, resolvedCommand is the text written and
\* that command's schema is the one validated against; otherwise command is
\* the text written and resolvedCommand is undefined.
C11_CommandAlias ==
  InProgress =>
    LET owners == DeclaringCommands(WrittenCommand)
    IN IF owners # {}
       THEN /\ ParsedCommand.command \in owners
            /\ ParsedCommand.resolvedCommand = Some(WrittenCommand)
            /\ call.schema = hist.latest[ParsedCommand.command]
       ELSE /\ ParsedCommand.command = WrittenCommand
            /\ ParsedCommand.resolvedCommand = None

C11_Witness ==
  /\ InProgress
  /\ DeclaringCommands(WrittenCommand) # {}
  /\ WrittenCommand \notin SchemaNames
  /\ ParsedCommand.command # WrittenCommand
  /\ call.evaluated # <<>>

\* the subcommand texts of the message, as MessageParser.parse extracted them
WrittenSubcommands == MessageParserResults[input.v][1].subcommands

\* the subAliases of the schema registered for the resolved command
SubAliasesInForce ==
  LET schema == hist.latest[ParsedCommand.command]
  IN IF ParsedCommand.command \in SchemaNames /\ schema # None
        /\ schema[1].subAliases # None
     THEN schema[1].subAliases[1] ELSE <<>>

\* the subcommand names that declare the text as an alias
DeclaringSubcommands(text) ==
  { SubAliasesInForce[i][1] :
      i \in { i \in 1..Len(SubAliasesInForce) : Contains(SubAliasesInForce[i][2], text) } }

\* C12: resolvedSubcommands is defined exactly when some subcommand written
\* is a declared alias; when defined it is as long as subcommands, entry i is
\* the text written and subcommands[i] is its canonical name, the same text
\* where the entry was no alias.
C12_SubcommandAliases ==
  InProgress =>
    LET written == WrittenSubcommands
        originals == ParsedCommand.resolvedSubcommands
        subcommands == ParsedCommand.subcommands
    IN /\ originals # None <=>
            \E i \in 1..Len(written) : DeclaringSubcommands(written[i]) # {}
       /\ Len(subcommands) = Len(written)
       /\ originals # None =>
            /\ Len(originals[1]) = Len(subcommands)
            /\ \A i \in 1..Len(subcommands) :
                 /\ originals[1][i] = written[i]
                 /\ IF DeclaringSubcommands(written[i]) # {}
                    THEN subcommands[i] \in DeclaringSubcommands(written[i])
                    ELSE subcommands[i] = written[i]

C12_Witness ==
  /\ InProgress
  /\ ParsedCommand.resolvedSubcommands # None
  /\ \E i, j \in 1..Len(ParsedCommand.subcommands) :
       /\ i < j
       /\ ParsedCommand.subcommands[i] = ParsedCommand.resolvedSubcommands[1][i]
       /\ ParsedCommand.subcommands[j] # ParsedCommand.resolvedSubcommands[1][j]

(***************************************************************************)
(* The mention specification: one call of MessageParser.parse on messages  *)
(* built from mentions of the three kinds, a malformed mention, a command   *)
(* word and an argument of the configured format.                          *)
(***************************************************************************)
UserMention == <<"<", "@", "1", ">">>

RoleMention == <<"<", "@", "&", "1", ">">>

ChannelMention == <<"<", "#", "1", "2", ">">>

MentionWords(argFormat) ==
  { <<"t">>, UserMention, RoleMention, ChannelMention, <<"<", "@", "x", ">">>,
    IF argFormat = "equals" THEN <<"k", "=", "1">>
    ELSE IF argFormat = "named" THEN <<"-", "-", "k">>
    ELSE <<"k", "(", "1", ")">> }

MentionInputs(opts) ==
  { StringInput(lead \o Join(ws, opts.delimiter)) :
      lead \in Leads,
      ws \in UNION { [1..n -> MentionWords(opts.argFormat)] : n \in 0..MaxWords } }

InitMention ==
  /\ options \in ParserConfigs
  /\ input \in MentionInputs(options)
  /\ output = NoOutput
  /\ schemas = <<>>
  /\ lastParsed = None
  /\ call = IdleCall
  /\ hist = NoHist
  /\ logger = NoLogger

SpecMention == InitMention /\ [][NextParse]_vars

\* the text is the prefix, one or more digits and ">"
ExactMention(value, prefix) ==
  /\ StartsWith(value, prefix)
  /\ Len(value) >= Len(prefix) + 2
  /\ value[Len(value)] = ">"
  /\ AllIn(SubSeq(value, Len(prefix) + 1, Len(value) - 1), Digits)

MentionKinds == {"user", "role", "channel"}

\* the Mention a well-formed mention of the kind stands for
MentionOf(kind, value) ==
  [type |-> kind,
   id |-> SubSeq(value, Len(options.mentionPrefixes[kind]) + 1, Len(value) - 1),
   raw |-> value]

\* the Mentions a text stands for: one if it is a well-formed mention
ExpectedMentions(value) ==
  IF \E kind \in MentionKinds : ExactMention(value, options.mentionPrefixes[kind])
  THEN <<MentionOf(CHOOSE kind \in MentionKinds :
                     ExactMention(value, options.mentionPrefixes[kind]), value)>>
  ELSE <<>>

RECURSIVE ExpectedMentionList(_)
ExpectedMentionList(tokens) ==
  IF tokens = <<>> THEN <<>>
  ELSE ExpectedMentions(Head(tokens).value) \o ExpectedMentionList(Tail(tokens))

\* C13: with mention parsing enabled, mentions holds one entry for every
\* well-formed mention token of the message, in message order, wherever the
\* token stands; no such token is the command or a subcommand, and every
\* well-formed argument of the message is in args.
C13_MentionsCollected ==
  (HasResult /\ options.mentionParsing) =>
    LET tokens == InputTokens
        start == RegionStart(tokens)
    IN /\ Result.mentions = ExpectedMentionList(tokens)
       /\ \A i \in 1..Len(tokens) :
            /\ ExpectedMentions(tokens[i].value) # <<>> =>
                 /\ Result.command # tokens[i].value
                 /\ ~Contains(Result.subcommands, tokens[i].value)
            /\ GoodArgument(tokens, start, i) =>
                 HasArg(Result.args, ArgumentKey(tokens, i))

\* C14: with the default prefixes a mention token of each kind, <@digits>,
\* <@&digits> or <#digits>, is parsed into a Mention of type user, role or
\* channel with the digits as id and the token text as raw.
C14_MentionKinds ==
  (HasResult /\ options.mentionParsing) =>
    LET tokens == InputTokens
    IN \A i \in 1..Len(tokens) : \A kind \in MentionKinds :
         ExactMention(tokens[i].value, options.mentionPrefixes[kind]) =>
           /\ tokens[i].type = "mention"
           /\ parseMention(options, tokens[i]) = Some(MentionOf(kind, tokens[i].value))
           /\ Contains(Result.mentions, MentionOf(kind, tokens[i].value))

\* C13 and C14 for messages without a role mention
NoRoleMention ==
  \A i \in 1..Len(InputTokens) :
    ~ExactMention(InputTokens[i].value, options.mentionPrefixes.role)

MentionsWithoutRole ==
  (HasResult /\ options.mentionParsing /\ NoRoleMention) =>
    (C13_MentionsCollected /\ C14_MentionKinds)

MentionsWithoutRoleWitness ==
  /\ HasResult /\ options.mentionParsing /\ NoRoleMention
  /\ Len(Result.mentions) >= 2
  /\ Result.mentions[1].type # Result.mentions[2].type
  /\ Result.args # NoArgs

(***************************************************************************)
(* The array specification: one call of Parser.parse of a message          *)
(* !t n(text) on a parser with one schema registered for t, whose rule for *)
(* n is of type array.  The rule object carries an itemType property, as   *)
(* the schemas of schema.test.ts do; ArgumentSchema declares none.         *)
(***************************************************************************)
ItemTypes == {"number", "string", "boolean"}

ItemRule(required, itemType, minItems) ==
  [Rule("array", required) EXCEPT !.minItems = minItems] @@ [itemType |-> itemType]

ItemRules ==
  { ItemRule(required, itemType, minItems) :
      required \in BOOLEAN,
      itemType \in {None} \cup { Some(type) : type \in ItemTypes },
      minItems \in {None, Some(2)} }

ItemTexts ==
  { <<"4", "2">>, <<"x">>, <<"t", "r", "u", "e">>, <<"1", ",", "2">>,
    <<"1", ",", "x">>, <<"x", ",", "y">>, <<"1", ",", "2", ",", "x">> }

ItemMessage(text) == Message(<< <<"t">>, <<"n", "(">> \o text \o <<")">> >>)

InitItems ==
  /\ options = FacadeOptions
  /\ \E rule \in ItemRules :
       schemas = registerSchema(<<>>, <<"t">>,
                                MkSchema(None, None, Some(<< <<KeyN, rule>> >>),
                                         None, None))
  /\ \E text \in ItemTexts : input = StringInput(ItemMessage(text))
  /\ output = NoOutput
  /\ lastParsed = None
  /\ call = IdleCall
  /\ hist = NoHist
  /\ logger = NoLogger

\* the call has run to its end: the result is stored and returned
ItemsReturn(done, result) ==
  /\ call' = [done EXCEPT !.pc = "done"]
  /\ lastParsed' = storeLastParsed(lastParsed, result)
  /\ output' = Returned(Some(result))

ItemsConclude(done) ==
  ItemsReturn(done,
              [ref |-> 1,
               obj |-> [done.result[1] EXCEPT
                          !.validationErrors =
                            IF Len(done.errors) > 0 THEN Some(done.errors)
                            ELSE None]])

ItemsValidate(v) ==
  ItemsConclude(Advance([IdleCall EXCEPT !.id = 1, !.pc = "running",
                                         !.result = Some(v.result),
                                         !.schema = v.schema, !.todo = v.todo,
                                         !.errors = v.errors]))

ItemsParsed(parsed) == ItemsValidate(validate(schemas, parsed[1]))

\* Parser.parse(message) from call to return; no rule has a validator, so
\* validate never suspends
ParseItems ==
  /\ ~output.returned
  /\ ItemsParsed(MessageParserParse(options, input))
  /\ UNCHANGED <<options, input, schemas, hist, logger>>

NextItems == ParseItems

SpecItems == InitItems /\ [][NextItems]_vars

\* the rule for n of the schema registered
ItemRuleInForce == Lookup(Lookup(schemas, <<"t">>).args[1], KeyN)

\* the elements of the value of n, a value that is no array being the only
\* element of a one-element array
ItemsOf(value) == IF value.t = "array" THEN value.v ELSE <<value>>

\* C15: for a rule of type array with itemType T (and no other constraint)
\* validation passes exactly when every element has type T, a comma-free
\* value counting as a one-element array, and every element of another type
\* yields an error naming its index.
C15_ArrayItemType ==
  (output.returned /\ ItemRuleInForce.itemType # None
     /\ ItemRuleInForce.minItems = None) =>
    LET result == output.value[1].obj
        items == ItemsOf(result.args[KeyN])
        wrong == { i \in 1..Len(items) : items[i].t # ItemRuleInForce.itemType[1] }
        errors == IF result.validationErrors = None THEN <<>>
                  ELSE result.validationErrors[1]
    IN /\ result.validationErrors = None <=> wrong = {}
       /\ \A i \in wrong :
            \E e \in 1..Len(errors) :
              /\ errors[e].arg = Some(KeyN)
              /\ errors[e].text = Some(<<i - 1>>)

(***************************************************************************)
(* The overlap specification: MaxOverlap calls of Parser.parse on one      *)
(* Parser, each started while earlier ones may still await a validator.    *)
(* call, input and output hold one entry per call.  A call whose           *)
(* validation has run to its end (pc "validated") resumes after            *)
(* `await this.schemaValidator.validate(result)` in OverlapFinish; calls   *)
(* in that position resume in either order.                                *)
(***************************************************************************)
MaxOverlap == 2

CallIds == 1..MaxOverlap

OverlapCatalog == { PendingSchema, ThrowingSchema }

OverlapRegistries ==
  { registerSchema(registerSchema(<<>>, <<"t">>, first), <<"u">>, second) :
      first, second \in OverlapCatalog }

OverlapMessages ==
  { <<"t">>,
    Message(<< <<"t">>, ArgN >>),
    Message(<< <<"t">>, ArgK, ArgN >>),
    Message(<< <<"u">>, ArgK >>) }

NoOverlapHist == [started |-> <<>>, finished |-> <<>>, overlapped |-> FALSE]

InitOverlap ==
  /\ options = FacadeOptions
  /\ schemas \in OverlapRegistries
  /\ input = [c \in CallIds |-> StringInput(<<>>)]
  /\ output = [c \in CallIds |-> NoOutput]
  /\ call = [c \in CallIds |-> IdleCall]
  /\ lastParsed = None
  /\ hist = NoOverlapHist
  /\ logger = NoLogger

\* Parser.parse(message) up to its first suspension, for the next call
OverlapStart ==
  \E message \in OverlapMessages :
    LET c == Len(hist.started) + 1
        parsed == MessageParserResults[message]
    IN /\ c \in CallIds
       /\ input' = [input EXCEPT ![c] = StringInput(message)]
       /\ IF parsed = None
          THEN /\ call' = [call EXCEPT ![c] = [IdleCall EXCEPT !.id = c, !.pc = "done"]]
               /\ output' = [output EXCEPT ![c] = Returned(None)]
               /\ hist' = [hist EXCEPT !.started = Append(@, c),
                                       !.finished = Append(@, c)]
          ELSE LET v == validate(schemas, parsed[1])
               IN /\ call' = [call EXCEPT ![c] =
                                Advance([IdleCall EXCEPT !.id = c, !.pc = "running",
                                                         !.result = Some(v.result),
                                                         !.schema = v.schema,
                                                         !.todo = v.todo,
                                                         !.errors = v.errors])]
                  /\ output' = output
                  /\ hist' = [hist EXCEPT
                                !.started = Append(@, c),
                                !.overlapped =
                                  @ \/ \E d \in CallIds : call[d].pc = "awaiting"]
       /\ UNCHANGED <<options, schemas, lastParsed, logger>>

\* the promise of the validator a call awaits settles
OverlapSettles ==
  \E c \in CallIds, outcome \in {"true", "false", "rejects"} :
    /\ call[c].pc = "awaiting"
    /\ call' = [call EXCEPT ![c] = Conclude(call[c], outcome)]
    /\ UNCHANGED <<options, input, output, schemas, lastParsed, hist, logger>>

\* Parser.parse after `await this.schemaValidator.validate(result)`
OverlapFinish ==
  \E c \in CallIds :
    /\ call[c].pc \in {"validated", "rejected"}
    /\ call' = [call EXCEPT ![c].pc = "done"]
    /\ hist' = [hist EXCEPT !.finished = Append(@, c)]
    /\ IF call[c].pc = "rejected"
       THEN /\ output' = [output EXCEPT ![c] = Rejected]
            /\ UNCHANGED lastParsed
       ELSE LET result == [ref |-> c,
                           obj |-> [call[c].result[1] EXCEPT
                                      !.validationErrors =
                                        IF Len(call[c].errors) > 0
                                        THEN Some(call[c].errors) ELSE None]]
            IN /\ lastParsed' = storeLastParsed(lastParsed, result)
               /\ output' = [output EXCEPT ![c] = Returned(Some(result))]
    /\ UNCHANGED <<options, input, schemas, logger>>

NextOverlap == OverlapStart \/ OverlapSettles \/ OverlapFinish

SpecOverlap == InitOverlap /\ [][NextOverlap]_vars

\* the calls that have finished with a result, in the order they finished
FinishedWithResult ==
  SelectSeq(hist.finished, LAMBDA c : output[c].returned /\ output[c].value # None)

\* C16: when calls of parse overlap, each call that finishes overwrites the
\* stored value: getLastParsed is the result of the call that finished its
\* validation last, whichever was started first, and each call resolves to
\* its own result.
C16_OverlapLastWriteWins ==
  /\ \A c \in CallIds :
       (output[c].returned /\ output[c].value # None) =>
         /\ output[c].value[1].ref = c
         /\ output[c].value[1].obj.originalMessage = input[c].v
         /\ output[c].value[1].obj.command = call[c].result[1].command
         /\ output[c].value[1].obj.validationErrors =
              (IF call[c].errors = <<>> THEN None ELSE Some(call[c].errors))
  /\ \A c \in CallIds : call[c].pc = "done" => output[c].returned
  /\ IF FinishedWithResult = <<>> THEN getLastParsed = None
     ELSE getLastParsed = output[FinishedWithResult[Len(FinishedWithResult)]].value

C16_Witness ==
  /\ call[1].pc = "done" /\ call[2].pc = "done"
  /\ hist.overlapped
  /\ \E i, j \in 1..Len(hist.finished) :
       i < j /\ hist.finished[i] = 2 /\ hist.finished[j] = 1 /\ j = Len(hist.finished)
  /\ output[2].returned /\ output[2].value # None
  /\ getLastParsed # None
  /\ getLastParsed[1].ref = 1
  /\ getLastParsed = output[1].value

\* the command extractCommandAndSubcommands gives for the message
ExtractedCommand == extractCommandAndSubcommands(options, InputTokens).command

\* the text stands in the message as it is
WrittenIn(text, message) == \E i \in 1..(Len(message) + 1) : MatchAt(message, text, i)

\* C17: with caseSensitive set, parse returns null whenever the extracted
\* command has an uppercase character and a result when it has none; without
\* it the command is accepted in any case and kept as written.
C17_CommandCase ==
  (output.returned /\ PrefixedMessage /\ InputTokens # <<>>) =>
    IF options.caseSensitive
    THEN output.value = None <=> HasUpper(ExtractedCommand)
    ELSE /\ output.value # None
         /\ Result.command = ExtractedCommand
         /\ WrittenIn(Result.command, input.v)

C17_Witness ==
  /\ HasResult
  /\ ~options.caseSensitive
  /\ HasUpper(Result.command)
  /\ Result.command # ToLowerCase(Result.command)
  /\ WrittenIn(Result.command, input.v)

C17_WitnessRejected ==
  /\ output.returned /\ output.value = None
  /\ options.caseSensitive
  /\ PrefixedMessage
  /\ HasUpper(ExtractedCommand)

(***************************************************************************)
(* The coercion specification: one call of coerceValue on a text of at     *)
(* most MaxText characters of CoerceChars, or one of CoerceSpecials.  What *)
(* new Date(value) makes of a text that is not in the ISO form is left to  *)
(* the engine: such a text, when it is no number, comes back as a string   *)
(* or as a Date.                                                           *)
(***************************************************************************)
MaxText == 3

CoerceChars == {"0", "1", "5", "-", ".", "e", "a", " "}

NaNText == <<"N", "a", "N">>

CoerceSpecials ==
  { NaNText, Infinity, <<"-">> \o Infinity, <<"+">> \o Infinity,
    <<"5", "a", "b", "c">>, <<"t", "r", "u", "e">>,
    <<"1", "e", "+", "2", "1">>, <<"1", "e", "2", "1">>, <<"1", "e", "9", "9", "9">>,
    <<"0", ".", "0", "0", "0", "0", "0", "1">>,
    <<"0", ".", "0", "0", "0", "0", "0", "0", "1">>,
    <<"2", "0", "2", "4", "-", "0", "1">> }

CoerceTexts ==
  UNION { [1..n -> CoerceChars] : n \in 0..MaxText } \cup CoerceSpecials

EngineDate == DateValue("engine")

CoerceOutcomes(value) ==
  LET coerced == coerceValue(value)
  IN IF coerced.t = "string" /\ Trim(value) # <<>> THEN {coerced, EngineDate}
     ELSE {coerced}

InitCoerce ==
  /\ options = FacadeOptions
  /\ input \in { StringInput(text) : text \in CoerceTexts }
  /\ output = NoOutput
  /\ schemas = <<>>
  /\ lastParsed = None
  /\ call = IdleCall
  /\ hist = NoHist
  /\ logger = NoLogger

\* coerceValue(value)
CoerceValue ==
  /\ ~output.returned
  /\ \E coerced \in CoerceOutcomes(input.v) : output' = Returned(Some(coerced))
  /\ UNCHANGED <<options, input, schemas, lastParsed, call, hist, logger>>

NextCoerce == CoerceValue

SpecCoerce == InitCoerce /\ [][NextCoerce]_vars

\* the text is, from its first to its last character, a decimal literal:
\* digits with an optional fraction, or a fraction, and an optional exponent
IsDigits(x) == x # <<>> /\ AllIn(x, Digits)

IsMantissa(x) ==
  \/ IsDigits(x)
  \/ \E i \in 1..Len(x) :
       /\ x[i] = "."
       /\ Len(x) > 1
       /\ AllIn(Take(x, i - 1), Digits)
       /\ AllIn(Drop(x, i), Digits)

IsExponent(x) ==
  \/ x = <<>>
  \/ /\ Head(x) \in {"e", "E"}
     /\ \/ IsDigits(Tail(x))
        \/ /\ Len(x) > 2
           /\ x[2] \in {"+", "-"}
           /\ IsDigits(Drop(x, 2))

IsUnsignedFinite(x) ==
  \E i \in 1..Len(x) : IsMantissa(Take(x, i)) /\ IsExponent(Drop(x, i))

Unsigned(text) ==
  IF text # <<>> /\ Head(text) \in {"+", "-"} THEN Tail(text) ELSE text

IsFiniteLiteral(text) == IsUnsignedFinite(Unsigned(text))

IsNumericLiteral(text) == IsFiniteLiteral(text) \/ Unsigned(text) = Infinity

RoundTrips(text) == NumberToString(ParseFloat(text)) = text

Coerced == output.value[1]

\* C18: for every text s with parseFloat(s).toString() === s coerceValue
\* returns the number equal to parseFloat(s), and it returns a number only
\* for a text that parses fully as a finite number and round-trips.
C18_RoundTripIsNumber ==
  output.returned =>
    /\ RoundTrips(input.v) =>
         Coerced = NumberValue(NumberContent(ParseFloat(input.v)))
    /\ Coerced.t = "number" =>
         /\ IsFiniteLiteral(input.v)
         /\ ParseFloat(input.v).kind = "fin"
         /\ RoundTrips(input.v)

\* C18 amended: for every text s for which parseFloat(s) is not NaN and
\* parseFloat(s).toString() === s coerceValue returns the number equal to
\* parseFloat(s), the infinities included; it returns a number only for such
\* a text, which is a numeric literal from its first to its last character;
\* the text NaN is not returned as a number.
C18_NumberExactly ==
  output.returned =>
    /\ (ParseFloat(input.v).kind # "nan" /\ RoundTrips(input.v)) =>
         Coerced = NumberValue(NumberContent(ParseFloat(input.v)))
    /\ Coerced.t = "number" =>
         /\ IsNumericLiteral(input.v)
         /\ ParseFloat(input.v).kind # "nan"
         /\ RoundTrips(input.v)
    /\ input.v = NaNText => Coerced.t # "number"
    /\ Unsigned(input.v) = Infinity =>
         (Coerced.t = "number" <=> Head(input.v) # "+")

C18_Witness ==
  /\ output.returned
  /\ Coerced.t = "number"
  /\ IndexOf(input.v, ".") # 0
  /\ RoundTrips(input.v)
  /\ Coerced = NumberValue(ParseFloat(input.v))

(***************************************************************************)
(* The Logger specification: the Discord transport of one Logger.  An      *)
(* embed is the number of the log call that made it.  logger.timers holds  *)
(* the delay of every timer set and not yet fired, logger.sending the      *)
(* batches handed to sendBatch whose fetch has not settled.  Time is not   *)
(* modelled: a timer set fires at some later moment.  hist counts the log  *)
(* calls, counts for each embed the requests it was part of, and keeps     *)
(* what the last step was.                                                 *)
(***************************************************************************)
MaxEmbeds == 3

DefaultBatchSize == 10

DefaultBatchDelay == 2000

DefaultMaxRetries == 3

DefaultRetryDelayBase == 1000

\* opt ?? default
OrDefault(opt, default) == IF opt = None THEN default ELSE opt[1]

DiscordOptions(batchSize, maxRetries, retryDelayBase) ==
  [enable |-> TRUE, batchSize |-> batchSize, batchDelay |-> None,
   maxRetries |-> maxRetries, retryDelayBase |-> retryDelayBase]

LoggerConfigs ==
  { [discord |-> DiscordOptions(batchSize, maxRetries, retryDelayBase)] :
      batchSize \in {None, Some(1), Some(2)},
      maxRetries \in {None, Some(0), Some(1)},
      retryDelayBase \in {None, Some(500)} }

Embeds == 1..MaxEmbeds

NoLoggerHist ==
  [logged |-> 0, sent |-> [e \in Embeds |-> 0], delivered |-> {},
   last |-> [kind |-> "none", batch |-> <<>>, before |-> <<>>]]

InitLogger ==
  /\ options \in LoggerConfigs
  /\ logger = NoLogger
  /\ hist = NoLoggerHist
  /\ input = StringInput(<<>>)
  /\ output = NoOutput
  /\ schemas = <<>>
  /\ lastParsed = None
  /\ call = IdleCall

RemoveAt(seq, i) == SubSeq(seq, 1, i - 1) \o SubSeq(seq, i + 1, Len(seq))

RECURSIVE Pow2(_)
Pow2(n) == IF n = 0 THEN 1 ELSE 2 * Pow2(n - 1)

\* a start that sets a timer for every log call
startProcessingAlways(state) == Append(state.timers, 0)

\* if (!this.isProcessing) { ...; setTimeout(() => this.processQueue(), 0) }
startProcessing(state) ==
  IF ~state.isProcessing THEN Append(state.timers, 0) ELSE state.timers

\* Logger.sendToDiscord, called by info, warn, error and debug
SendToDiscord ==
  /\ hist.logged < MaxEmbeds
  /\ options.discord.enable
  /\ logger' = [logger EXCEPT
                  !.discordQueue = Append(@, [embed |-> hist.logged + 1,
                                              retryCount |-> 0]),
                  !.isProcessing = TRUE,
                  !.timers = startProcessing(logger)]
  /\ hist' = [hist EXCEPT !.logged = @ + 1,
                          !.last = [kind |-> "logged", batch |-> <<>>,
                                    before |-> <<>>]]
  /\ UNCHANGED <<options, input, output, schemas, lastParsed, call>>

\* a stop that leaves the flag set
stopProcessingBusy(state, t) == [state EXCEPT !.timers = RemoveAt(@, t)]

\* if (this.discordQueue.length === 0) { this.isProcessing = false; return }
stopProcessing(state, t) ==
  [state EXCEPT !.isProcessing = FALSE, !.timers = RemoveAt(@, t)]

\* Logger.processQueue, run by a timer, up to the call of fetch in sendBatch
ProcessQueue ==
  \E t \in 1..Len(logger.timers) :
    /\ IF logger.discordQueue = <<>>
       THEN /\ logger' = stopProcessing(logger, t)
            /\ hist' = [hist EXCEPT !.last = [kind |-> "idle", batch |-> <<>>,
                                              before |-> <<>>]]
       ELSE LET batchSize == OrDefault(options.discord.batchSize, DefaultBatchSize)
                batch == Take(logger.discordQueue, batchSize)
            IN /\ logger' = [logger EXCEPT
                               !.isProcessing = TRUE,
                               !.timers = RemoveAt(@, t),
                               !.discordQueue = Drop(@, batchSize),
                               !.sending = Append(@, batch)]
               /\ hist' = [hist EXCEPT
                             !.sent = [e \in Embeds |->
                                         IF \E i \in 1..Len(batch) : batch[i].embed = e
                                         THEN @[e] + 1 ELSE @[e]],
                             !.last = [kind |-> "sending", batch |-> batch,
                                       before |-> <<>>]]
    /\ UNCHANGED <<options, input, output, schemas, lastParsed, call>>

\* the then callback: the fetch of a batch resolved
SendResolves ==
  \E b \in 1..Len(logger.sending) :
    /\ logger' = [logger EXCEPT
                    !.sending = RemoveAt(@, b),
                    !.timers = Append(@, OrDefault(options.discord.batchDelay,
                                                   DefaultBatchDelay))]
    /\ hist' = [hist EXCEPT
                  !.delivered = @ \cup { logger.sending[b][i].embed :
                                           i \in 1..Len(logger.sending[b]) },
                  !.last = [kind |-> "sent", batch |-> logger.sending[b],
                            before |-> <<>>]]
    /\ UNCHANGED <<options, input, output, schemas, lastParsed, call>>

\* a filter that also keeps the items that have reached maxRetries
retryItemsInclusive(batch, maxRetries) ==
  LET kept == SelectSeq(batch, LAMBDA item : item.retryCount <= maxRetries)
  IN [i \in 1..Len(kept) |-> [kept[i] EXCEPT !.retryCount = @ + 1]]

\* batch.filter(item => item.retryCount < maxRetries).map(... retryCount + 1)
retryItems(batch, maxRetries) ==
  LET kept == SelectSeq(batch, LAMBDA item : item.retryCount < maxRetries)
  IN [i \in 1..Len(kept) |-> [kept[i] EXCEPT !.retryCount = @ + 1]]

\* a delay computed from the retry count after the increment
retryDelayAfter(retryDelayBase, batch) ==
  retryDelayBase * Pow2(IF batch = <<>> THEN 0 ELSE batch[1].retryCount + 1)

\* retryDelayBase * Math.pow(2, batch[0]?.retryCount ?? 0)
retryDelay(retryDelayBase, batch) ==
  retryDelayBase * Pow2(IF batch = <<>> THEN 0 ELSE batch[1].retryCount)

\* the catch callback: the fetch of a batch rejected
SendRejects ==
  \E b \in 1..Len(logger.sending) :
    LET batch == logger.sending[b]
        maxRetries == OrDefault(options.discord.maxRetries, DefaultMaxRetries)
        retryDelayBase == OrDefault(options.discord.retryDelayBase,
                                    DefaultRetryDelayBase)
    IN /\ logger' = [logger EXCEPT
                       !.sending = RemoveAt(@, b),
                       !.discordQueue = retryItems(batch, maxRetries) \o @,
                       !.timers = Append(@, retryDelay(retryDelayBase, batch))]
       /\ hist' = [hist EXCEPT !.last = [kind |-> "failed", batch |-> batch,
                                         before |-> logger.discordQueue]]
       /\ UNCHANGED <<options, input, output, schemas, lastParsed, call>>

NextLogger == SendToDiscord \/ ProcessQueue \/ SendResolves \/ SendRejects

SpecLogger == InitLogger /\ [][NextLogger]_vars

MaxRetriesInForce == OrDefault(options.discord.maxRetries, DefaultMaxRetries)

\* the places in the failed batch of the items that may be tried again
Retriable(batch) == { i \in 1..Len(batch) : batch[i].retryCount < MaxRetriesInForce }

\* the place in the batch of the j-th such item
NthRetriable(batch, j) ==
  CHOOSE i \in Retriable(batch) :
    Cardinality({ k \in Retriable(batch) : k < i }) = j - 1

\* C19: a batch whose send fails is put back at the front of the queue with
\* each item's retry count incremented, except the items that have reached
\* maxRetries, which are dropped; every embed is sent at most maxRetries + 1
\* times; and the timer for the next attempt is set to retryDelayBase times
\* 2 to the retry count the first item of the failed batch had.
C19_RetryOnFailure ==
  /\ \A e \in Embeds : hist.sent[e] <= MaxRetriesInForce + 1
  /\ hist.last.kind = "failed" =>
       LET batch == hist.last.batch
           queue == logger.discordQueue
           n == Cardinality(Retriable(batch))
       IN /\ Len(queue) = n + Len(hist.last.before)
          /\ SubSeq(queue, n + 1, Len(queue)) = hist.last.before
          /\ \A j \in 1..n :
               /\ queue[j].embed = batch[NthRetriable(batch, j)].embed
               /\ queue[j].retryCount = batch[NthRetriable(batch, j)].retryCount + 1
          /\ logger.timers # <<>>
          /\ logger.timers[Len(logger.timers)]
               = OrDefault(options.discord.retryDelayBase, DefaultRetryDelayBase)
                   * Pow2(batch[1].retryCount)

C19_Witness ==
  /\ hist.last.kind = "failed"
  /\ Len(hist.last.batch) = 2
  /\ hist.last.batch[1].retryCount = MaxRetriesInForce
  /\ hist.last.batch[1].retryCount >= 1
  /\ hist.last.batch[2].retryCount < MaxRetriesInForce
  /\ hist.sent[hist.last.batch[1].embed] = MaxRetriesInForce + 1
  /\ hist.last.before # <<>>
  /\ Len(logger.discordQueue) = 1 + Len(hist.last.before)

\* one timer or one request at a time, and isProcessing while there is one
OneAttemptAtATime ==
  /\ Len(logger.timers) + Len(logger.sending) <= 1
  /\ logger.isProcessing <=> (logger.timers # <<>> \/ logger.sending # <<>>)

(***************************************************************************)
(* The tokenizer specification: one call of Tokenizer.tokenize on a text   *)
(* of at most MaxChars characters: a letter, the delimiter, parentheses,   *)
(* both quotes and the backslash.                                          *)
(***************************************************************************)
MaxChars == 5

TokenConfigs ==
  { MkOptions(<<Bang>>, FALSE, Space, "typed", TRUE),
    MkOptions(<<Bang>>, FALSE, <<",">>, "typed", FALSE) }

TokenChars(opts) == {"a", opts.delimiter[1], "(", ")", "\"", "'", "\\"}

TokenTexts(opts) == UNION { [1..n -> TokenChars(opts)] : n \in 0..MaxChars }

InitTokens ==
  /\ options \in TokenConfigs
  /\ input \in { StringInput(text) : text \in TokenTexts(options) }
  /\ output = NoOutput
  /\ schemas = <<>>
  /\ lastParsed = None
  /\ call = IdleCall
  /\ hist = NoHist
  /\ logger = NoLogger

\* Tokenizer.tokenize(message)
Tokenize ==
  /\ ~output.returned
  /\ output' = Returned(Some(tokenize(options, input.v)))
  /\ UNCHANGED <<options, input, schemas, lastParsed, call, hist, logger>>

NextTokens == Tokenize

SpecTokens == InitTokens /\ [][NextTokens]_vars

\* where the character at index p (1-based) of the message stands: inside
\* double quotes, inside single quotes, at which parenthesis depth, and
\* whether a backslash escapes it.  A quote opens or closes only outside the
\* other kind of quote, a parenthesis counts only outside quotes, and an
\* escaped character does neither.
RECURSIVE Standing(_, _)
Standing(message, p) ==
  IF p = 1 THEN [double |-> FALSE, single |-> FALSE, depth |-> 0, escaped |-> FALSE]
  ELSE LET before == Standing(message, p - 1)
           char == message[p - 1]
           plain == [before EXCEPT !.escaped = FALSE]
       IN IF before.escaped THEN plain
          ELSE IF char = "\\" THEN [before EXCEPT !.escaped = TRUE]
          ELSE IF char = "\"" /\ ~before.single
          THEN [plain EXCEPT !.double = ~before.double]
          ELSE IF char = "'" /\ ~before.double
          THEN [plain EXCEPT !.single = ~before.single]
          ELSE IF before.double \/ before.single THEN plain
          ELSE IF char = "(" THEN [plain EXCEPT !.depth = @ + 1]
          ELSE IF char = ")" THEN [plain EXCEPT !.depth = @ - 1]
          ELSE plain

IsDelimiterAt(message, p) == <<message[p]>> = options.delimiter

\* the delimiter at p stands outside quotes at depth zero, not escaped
Separates(message, p) ==
  /\ IsDelimiterAt(message, p)
  /\ LET at == Standing(message, p)
     IN ~at.double /\ ~at.single /\ at.depth = 0 /\ ~at.escaped

\* the message cut at the delimiters that separate, empty pieces left out
RECURSIVE PiecesFrom(_, _, _)
PiecesFrom(message, p, piece) ==
  LET done == IF piece = <<>> THEN <<>> ELSE <<piece>>
  IN IF p > Len(message) THEN done
     ELSE IF Separates(message, p) THEN done \o PiecesFrom(message, p + 1, <<>>)
     ELSE PiecesFrom(message, p + 1, Append(piece, message[p]))

TokenValues == [i \in 1..Len(output.value[1].tokens) |-> output.value[1].tokens[i].value]

\* C20: the tokenizer ends a token at a delimiter only when the delimiter
\* stands outside double quotes, outside single quotes and at parenthesis
\* depth zero; a delimiter inside quotes or inside an open parenthesis stays
\* in the current token, and parentheses inside quotes do not change the
\* depth: the tokens are the message cut at exactly those delimiters.
C20_DelimiterOutsideOnly ==
  output.returned =>
    /\ TokenValues = PiecesFrom(input.v, 1, <<>>)
    /\ \A p \in 1..Len(input.v) :
         (/\ IsDelimiterAt(input.v, p)
          /\ \/ Standing(input.v, p).double
             \/ Standing(input.v, p).single
             \/ Standing(input.v, p).depth > 0) =>
           \E i \in 1..Len(TokenValues) :
             \E j \in 1..Len(TokenValues[i]) : <<TokenValues[i][j]>> = options.delimiter

C20_Witness ==
  /\ output.returned
  /\ Len(TokenValues) >= 2
  /\ \E p, q \in 1..Len(input.v) :
       /\ IsDelimiterAt(input.v, p) /\ Standing(input.v, p).depth > 0
       /\ Separates(input.v, q)
       /\ p < q

C20_WitnessQuoted ==
  /\ output.returned
  /\ Len(TokenValues) >= 2
  /\ \E p, q \in 1..Len(input.v) :
       /\ p < q
       /\ IsDelimiterAt(input.v, p) /\ Standing(input.v, p).double
       /\ Separates(input.v, q)

\* the characters of the message from p on that no separating delimiter holds
RECURSIVE KeptFrom(_, _)
KeptFrom(message, p) ==
  IF p > Len(message) THEN <<>>
  ELSE IF Separates(message, p) THEN KeptFrom(message, p + 1)
  ELSE <<message[p]>> \o KeptFrom(message, p + 1)

RECURSIVE Flatten(_)
Flatten(seqs) == IF seqs = <<>> THEN <<>> ELSE Head(seqs) \o Flatten(Tail(seqs))

\* the items written: the maximal runs of characters between separating
\* delimiters, counted by their first characters
ItemStarts(message) ==
  { p \in 1..Len(message) :
      ~Separates(message, p) /\ (p = 1 \/ Separates(message, p - 1)) }

\* every quote and parenthesis of the message is closed, none closes twice
Balanced(message) ==
  /\ LET end == Standing(message, Len(message) + 1)
     IN ~end.double /\ ~end.single /\ end.depth = 0 /\ ~end.escaped
  /\ \A p \in 1..Len(message) : Standing(message, p).depth >= 0

Rejoined == Join(TokenValues, options.delimiter)

\* C21: tokenizing loses nothing: the characters that are not separating
\* delimiters appear in the tokens once each and in the original order, no
\* token is empty, and for content with balanced quotes and parentheses the
\* number of tokens is the number of items written, and the tokens joined by
\* the delimiter tokenize to the same tokens again.
C21_TokenizeLosesNothing ==
  output.returned =>
    /\ Flatten(TokenValues) = KeptFrom(input.v, 1)
    /\ \A i \in 1..Len(TokenValues) : TokenValues[i] # <<>>
    /\ Balanced(input.v) =>
         /\ Len(TokenValues) = Cardinality(ItemStarts(input.v))
         /\ LET again == tokenize(options, Rejoined).tokens
            IN /\ Len(again) = Len(TokenValues)
               /\ \A i \in 1..Len(again) : again[i].value = TokenValues[i]

C21_Witness ==
  /\ output.returned
  /\ Balanced(input.v)
  /\ Len(TokenValues) = 2
  /\ Rejoined # input.v
  /\ \E p \in 1..Len(input.v) :
       IsDelimiterAt(input.v, p) /\ ~Separates(input.v, p)

(***************************************************************************)
(* The quoted-message specification: one call of MessageParser.parse on a  *)
(* message whose words carry quotes, closed and left open.                 *)
(***************************************************************************)
QuoteWords(argFormat) ==
  { <<"t">>, <<"T">>, <<"\"", "x">>, <<"'", "x">>, <<"\"", "x", "\"">>,
    <<"a", "'">>, <<"\"">> }
    \cup (IF argFormat = "equals" THEN { <<"k", "=", "\"", "x">> }
          ELSE IF argFormat = "named" THEN { <<"-", "-", "k">> }
          ELSE { <<"k", "(", "\"", "x", ")">> })

QuoteInputs(opts) ==
  { StringInput(lead \o Join(ws, opts.delimiter)) :
      lead \in {<<>>, Bang},
      ws \in UNION { [1..n -> QuoteWords(opts.argFormat)] : n \in 0..MaxWords } }

InitQuote ==
  /\ options \in ParserConfigs
  /\ input \in QuoteInputs(options)
  /\ output = NoOutput
  /\ schemas = <<>>
  /\ lastParsed = None
  /\ call = IdleCall
  /\ hist = NoHist
  /\ logger = NoLogger

SpecQuote == InitQuote /\ [][NextParse]_vars

\* the content the tokenizer is given
InputContent == Trim(AfterPrefix(options, input.v))

\* the content ends inside a quote of the kind ("double" or "single")
EndsInside(kind) == Standing(InputContent, Len(InputContent) + 1)[kind]

UnclosedKinds == {"Unclosed double quote", "Unclosed single quote"}

\* the unclosed-quote reports among the errors
Unclosed(errors) == { i \in 1..Len(errors) : errors[i].kind \in UnclosedKinds }

\* what the tokenizer gives for a content that ends inside a quote: one
\* error, named after the quote that is open, and the text accumulated since
\* the last separating delimiter as the last token
UnclosedReported(tok) ==
  /\ Len(tok.errors) = 1
  /\ tok.errors[1].type = "parse"
  /\ tok.errors[1].kind = (IF EndsInside("double") THEN "Unclosed double quote"
                           ELSE "Unclosed single quote")
  /\ tok.tokens # <<>>
  /\ LET pieces == PiecesFrom(InputContent, 1, <<>>)
         last == tok.tokens[Len(tok.tokens)]
     IN /\ last.value = pieces[Len(pieces)]
        /\ \E j \in 1..Len(last.value) : last.value[j] \in {"\"", "'"}
        /\ tok.errors[1].position = last.position

\* the result of parse carries the tokenizer's error, once and first
UnclosedCarried(tok) ==
  /\ output.value # None
  /\ Result.errors # None
  /\ Result.errors[1][1] = tok.errors[1]
  /\ Cardinality(Unclosed(Result.errors[1])) = 1

C22_WitnessSingle ==
  /\ HasResult
  /\ PrefixedMessage
  /\ EndsInside("single")
  /\ \E i \in 1..Len(InputContent) : InputContent[i] = "\""

(***************************************************************************)
(* The error-order specification: one call of Parser.parse on a parser     *)
(* with one schema for command t that allows some subcommands and has      *)
(* global rules and rules scoped to the subcommands s and x; the message   *)
(* names at most MaxSubs subcommands, some of them twice.                  *)
(***************************************************************************)
MaxSubs == 3

KeyM == <<"m">>

\* global: k a required number, n a required string of at least 3
\* characters, declared in either order; under s: n and m required strings;
\* under x: k an optional string; z an alias of s
OrderSchema(allowed, kFirst) ==
  LET k == <<KeyK, Rule("number", TRUE)>>
      n == <<KeyN, [Rule("string", TRUE) EXCEPT !.minLength = Some(3)]>>
  IN MkSchema(None, allowed,
              Some(IF kFirst THEN <<k, n>> ELSE <<n, k>>),
              Some(<< <<SubS, << <<KeyN, Rule("string", TRUE)>>,
                                 <<KeyM, Rule("string", TRUE)>> >> >>,
                      << <<"x">>, << <<KeyK, Rule("string", FALSE)>> >> >> >>),
              Some(<< <<SubS, << <<"z">> >> >> >>))

OrderSchemas ==
  { OrderSchema(allowed, kFirst) :
      allowed \in {None, Some(<<>>), Some(<<SubS>>), Some(<< <<"x">>, <<"y">> >>)},
      kFirst \in BOOLEAN }

OrderSubcommands == { SubS, <<"x">>, <<"y">>, <<"z">> }

OrderArguments == { <<>>, <<ArgK>>, <<ArgN>>, <<ArgK, ArgN>> }

OrderMessages ==
  { Message(<< <<"t">> >> \o subs \o arguments) :
      subs \in UNION { [1..n -> OrderSubcommands] : n \in 0..MaxSubs },
      arguments \in OrderArguments }

InitOrder ==
  /\ options = FacadeOptions
  /\ \E schema \in OrderSchemas : schemas = registerSchema(<<>>, <<"t">>, schema)
  /\ \E message \in OrderMessages : input = StringInput(message)
  /\ output = NoOutput
  /\ lastParsed = None
  /\ call = IdleCall
  /\ hist = NoHist
  /\ logger = NoLogger

SpecOrder == InitOrder /\ [][NextItems]_vars

\* the messages validateArgument and validateType give for one rule
RuleErrors(result, item) ==
  Advance([IdleCall EXCEPT !.pc = "running", !.result = Some(result),
                           !.todo = <<item>>]).errors

\* validationErrors as a list
ValidationErrorList(obj) ==
  IF obj.validationErrors = None THEN <<>> ELSE obj.validationErrors[1]

\* first: one message for each subcommand that is not allowed, in the order
\* the subcommands appear
ExpectedNotAllowed(schema, obj) ==
  IF schema.allowedSubcommands = None THEN <<>>
  ELSE Flatten([i \in 1..Len(obj.subcommands) |->
         IF Contains(schema.allowedSubcommands[1], obj.subcommands[i]) THEN <<>>
         ELSE <<MkError("is not allowed for command", None,
                        Some(obj.subcommands[i]), Some(obj.command))>>])

\* the argument has a rule under a subcommand of the message
ScopedArgument(schema, obj, arg) ==
  \E i \in 1..Len(obj.subcommands) :
    /\ HasKey(schema.subArgs[1], obj.subcommands[i])
    /\ HasKey(Lookup(schema.subArgs[1], obj.subcommands[i]), arg)

\* then: the messages of the global rules in declaration order
ExpectedGlobal(schema, obj) ==
  Flatten([j \in 1..Len(schema.args[1]) |->
    IF ScopedArgument(schema, obj, schema.args[1][j][1]) THEN <<>>
    ELSE RuleErrors(obj, [arg |-> schema.args[1][j][1], sub |-> None,
                          rule |-> schema.args[1][j][2]])])

\* the messages of the rules of the subcommand, in declaration order
ExpectedUnder(schema, obj, sub) ==
  IF ~HasKey(schema.subArgs[1], sub) THEN <<>>
  ELSE LET rules == Lookup(schema.subArgs[1], sub)
       IN Flatten([j \in 1..Len(rules) |->
            RuleErrors(obj, [arg |-> rules[j][1], sub |-> Some(sub),
                             rule |-> rules[j][2]])])

\* last: the messages of the subcommand-scoped rules, once for every
\* appearance of the subcommand, in the order of the appearances
ExpectedScoped(schema, obj) ==
  Flatten([i \in 1..Len(obj.subcommands) |->
             ExpectedUnder(schema, obj, obj.subcommands[i])])

OrderSchemaInForce == Lookup(schemas, <<"t">>)

\* C23: validationErrors is a flat list in a fixed order: the
\* not-allowed-subcommand messages in the order of the subcommands, then the
\* messages of the global rules in declaration order, then the messages of
\* the subcommand-scoped rules in the order the subcommands appear; nothing
\* is de-duplicated, so a subcommand that appears twice has the errors of
\* its rules twice.
C23_ValidationErrorOrder ==
  output.returned =>
    /\ ValidationErrorList(Result.obj) =
         ExpectedNotAllowed(OrderSchemaInForce, Result.obj)
           \o ExpectedGlobal(OrderSchemaInForce, Result.obj)
           \o ExpectedScoped(OrderSchemaInForce, Result.obj)
    /\ \A i, j \in 1..Len(Result.obj.subcommands) :
         (i < j /\ Result.obj.subcommands[i] = Result.obj.subcommands[j]
            /\ ExpectedUnder(OrderSchemaInForce, Result.obj,
                             Result.obj.subcommands[i]) # <<>>) =>
           \E a, b \in 1..Len(ValidationErrorList(Result.obj)) :
             /\ a < b
             /\ ValidationErrorList(Result.obj)[a] = ValidationErrorList(Result.obj)[b]

C23_Witness ==
  /\ output.returned
  /\ ExpectedNotAllowed(OrderSchemaInForce, Result.obj) # <<>>
  /\ ExpectedGlobal(OrderSchemaInForce, Result.obj) # <<>>
  /\ ExpectedScoped(OrderSchemaInForce, Result.obj) # <<>>
  /\ \E i, j \in 1..Len(Result.obj.subcommands) :
       /\ i < j
       /\ Result.obj.subcommands[i] = SubS
       /\ Result.obj.subcommands[j] = SubS
  /\ Len(ValidationErrorList(Result.obj)) >= 6

(***************************************************************************)
(* The custom-validator specification: one call of Parser.parse on a       *)
(* parser whose schema for t has three custom rules k, n, m in this order; *)
(* each validator is absent, returns true or false, throws, or returns a   *)
(* promise that settles later.  hist.settled logs the promises that have   *)
(* settled, in the order they settle.                                      *)
(***************************************************************************)
ArgM == <<"m", "(", "x", ")">>

ValidatorKinds ==
  { None, Some("true"), Some("false"), Some("throws"), Some("promise") }

CustomRule(validator) == [Rule("custom", FALSE) EXCEPT !.customValidator = validator]

CustomSchemas ==
  { MkSchema(None, None,
             Some(<< <<KeyK, CustomRule(vk)>>, <<KeyN, CustomRule(vn)>>,
                     <<KeyM, CustomRule(vm)>> >>),
             None, None) : vk \in ValidatorKinds, vn \in ValidatorKinds,
                           vm \in ValidatorKinds }

CustomMessages ==
  { Message(<< <<"t">> >> \o k \o n \o m) :
      k \in {<<>>, <<ArgK>>}, n \in {<<>>, <<ArgN>>}, m \in {<<>>, <<ArgM>>} }

NoCustomHist == NoHist @@ [settled |-> <<>>]

InitCustom ==
  /\ options = FacadeOptions
  /\ \E schema \in CustomSchemas : schemas = registerSchema(<<>>, <<"t">>, schema)
  /\ \E message \in CustomMessages : input = StringInput(message)
  /\ output = NoOutput
  /\ lastParsed = None
  /\ call = IdleCall
  /\ hist = NoCustomHist
  /\ logger = NoLogger

CustomValidate(v) ==
  call' = Advance([IdleCall EXCEPT !.id = 1, !.pc = "running",
                                   !.result = Some(v.result),
                                   !.schema = v.schema, !.todo = v.todo,
                                   !.errors = v.errors])

CustomParsed(parsed) == CustomValidate(validate(schemas, parsed[1]))

\* Parser.parse(message) up to its first suspension
CustomStart ==
  /\ call.pc = "idle"
  /\ CustomParsed(MessageParserParse(options, input))
  /\ UNCHANGED <<options, input, output, schemas, lastParsed, hist, logger>>

\* the promise of the validator being awaited settles
CustomSettles ==
  \E outcome \in {"true", "false", "rejects"} :
    /\ call.pc = "awaiting"
    /\ call' = Conclude(call, outcome)
    /\ hist' = [hist EXCEPT !.settled = Append(@, <<Head(call.todo).arg, outcome>>)]
    /\ UNCHANGED <<options, input, output, schemas, lastParsed, logger>>

NextCustom == CustomStart \/ CustomSettles \/ ParseFinish

SpecCustom == InitCustom /\ [][NextCustom]_vars

\* the rules of the schema in declaration order
CustomRules == Lookup(schemas, <<"t">>).args[1]

RuleIndex(arg) == CHOOSE j \in 1..Len(CustomRules) : CustomRules[j][1] = arg

\* the validators called so far, in the order of the calls: the rules
\* reached that have a validator and an argument to give it
Called ==
  SelectSeq(call.evaluated,
            LAMBDA item : /\ item.rule.customValidator # None
                          /\ HasArg(call.result[1].args, item.arg))

\* the promises returned so far and those that have settled, by argument
PromisesReturned ==
  { Called[i].arg : i \in { i \in 1..Len(Called) :
                              Called[i].rule.customValidator = Some("promise") } }

PromisesSettled == { hist.settled[i][1] : i \in 1..Len(hist.settled) }

\* the outcome of the validator of rule j, once it has one
OutcomeOf(j) ==
  IF CustomRules[j][2].customValidator # Some("promise")
  THEN CustomRules[j][2].customValidator[1]
  ELSE hist.settled[CHOOSE i \in 1..Len(hist.settled) :
                       hist.settled[i][1] = CustomRules[j][1]][2]

\* the message the custom case gives for rule j
ExpectedCustom(j) ==
  IF CustomRules[j][2].customValidator = None
       \/ ~HasArg(Result.obj.args, CustomRules[j][1])
  THEN <<>>
  ELSE IF OutcomeOf(j) = "true" THEN <<>>
  ELSE IF OutcomeOf(j) = "false"
  THEN <<MkError("failed custom validation", Some(CustomRules[j][1]), None, None)>>
  ELSE <<MkError("custom validation error", Some(CustomRules[j][1]), None,
                 Some(ErrorMessage))>>

\* C24: within one validation the custom validators are called one at a time
\* in rule order: a validator is not called before the promise of the
\* previous one has settled, so at most one promise is pending, and the
\* custom-validation messages in validationErrors stand in rule order
\* whatever the promises settle with and whenever they settle.
C24_ValidatorsInTurn ==
  /\ Cardinality(PromisesReturned \ PromisesSettled) <= 1
  /\ call.pc = "awaiting" <=> PromisesReturned \ PromisesSettled # {}
  /\ \A i, j \in 1..Len(Called) :
       i < j =>
         /\ RuleIndex(Called[i].arg) < RuleIndex(Called[j].arg)
         /\ Called[i].rule.customValidator = Some("promise")
              => Called[i].arg \in PromisesSettled
  /\ \A i, j \in 1..Len(hist.settled) :
       i < j => RuleIndex(hist.settled[i][1]) < RuleIndex(hist.settled[j][1])
  /\ output.returned =>
       ValidationErrorList(Result.obj) =
         Flatten([j \in 1..Len(CustomRules) |-> ExpectedCustom(j)])

C24_Witness ==
  /\ output.returned
  /\ Len(hist.settled) = 3
  /\ hist.settled[1][2] = "true"
  /\ hist.settled[2][2] = "rejects"
  /\ hist.settled[3][2] = "false"
  /\ Len(ValidationErrorList(Result.obj)) = 2

C24_WitnessPending ==
  /\ call.pc = "awaiting"
  /\ Len(hist.settled) = 1
  /\ Len(Called) = 2
  /\ Len(call.todo) = 2

(***************************************************************************)
(* The error-channel specification: one call of Parser.parse on a parser   *)
(* with no schema or one schema, registered for the command t or for the   *)
(* empty command; the words of the message bring unclosed quotes, a        *)
(* missing command, malformed arguments and arguments the schema rejects.  *)
(***************************************************************************)
ChannelWords ==
  { <<"t">>, ArgK, <<"k", "(", "a", ")">>, <<"n", "(">>, <<"\"", "x">>, <<"n", ")">> }

ChannelMessages ==
  { Bang \o Join(ws, Space) : ws \in UNION { [1..n -> ChannelWords] : n \in 0..MaxWords } }

ChannelRegistries ==
  { <<>> } \cup { registerSchema(<<>>, command, LengthSchema) : command \in { <<"t">>, <<>> } }

InitChannels ==
  /\ options = FacadeOptions
  /\ schemas \in ChannelRegistries
  /\ \E message \in ChannelMessages : input = StringInput(message)
  /\ output = NoOutput
  /\ lastParsed = None
  /\ call = IdleCall
  /\ hist = NoHist
  /\ logger = NoLogger

ChannelsParsed(parsed) ==
  IF parsed = None
  THEN /\ call' = [IdleCall EXCEPT !.id = 1, !.pc = "done"]
       /\ output' = Returned(None)
       /\ UNCHANGED lastParsed
  ELSE ItemsParsed(parsed)

\* Parser.parse(message) from call to return; no rule has a validator, so
\* validate never suspends
ParseChannels ==
  /\ ~output.returned
  /\ ChannelsParsed(MessageParserParse(options, input))
  /\ UNCHANGED <<options, input, schemas, hist, logger>>

NextChannels == ParseChannels

SpecChannels == InitChannels /\ [][NextChannels]_vars

ExtractionKinds == {"No command found in message"}

\* where the error comes from, by its message: 1 the tokenizer, 2 the
\* command extraction, 3 the argument parser
ErrorClass(error) ==
  IF error.kind \in UnclosedKinds THEN 1
  ELSE IF error.kind \in ExtractionKinds THEN 2
  ELSE IF error.kind \in FormatErrorKinds THEN 3
  ELSE 0

IsParseError(x) ==
  /\ DOMAIN x = {"type", "kind", "text", "position"}
  /\ x.type = "parse"

\* a validation message: a string, which has no type and no position
IsValidationMessage(x) == DOMAIN x = {"kind", "arg", "sub", "text"}

\* C25: in every result of parse, errors is absent or a non-empty list of
\* parse-error objects in the order tokenizer errors, command-extraction
\* errors, argument-parser errors, and validationErrors is absent or a
\* non-empty list of strings; no validation message stands in errors and no
\* parse error in validationErrors.
C25_TwoErrorChannels ==
  (output.returned /\ output.value # None) =>
    /\ Result.obj.errors # None =>
         /\ Result.obj.errors[1] # <<>>
         /\ \A i \in 1..Len(Result.obj.errors[1]) :
              /\ IsParseError(Result.obj.errors[1][i])
              /\ ErrorClass(Result.obj.errors[1][i]) \in 1..3
         /\ \A i, j \in 1..Len(Result.obj.errors[1]) :
              i < j => ErrorClass(Result.obj.errors[1][i])
                         <= ErrorClass(Result.obj.errors[1][j])
    /\ Result.obj.errors = None =>
         /\ tokenize(options, InputContent).errors = <<>>
         /\ Result.obj.command # <<>>
    /\ Result.obj.validationErrors # None =>
         /\ Result.obj.validationErrors[1] # <<>>
         /\ \A i \in 1..Len(Result.obj.validationErrors[1]) :
              IsValidationMessage(Result.obj.validationErrors[1][i])

C25_Witness ==
  /\ output.returned
  /\ output.value # None
  /\ Result.obj.errors # None
  /\ { ErrorClass(Result.obj.errors[1][i]) : i \in 1..Len(Result.obj.errors[1]) }
       = {1, 2, 3}
  /\ Result.obj.validationErrors # None

\* the token has the form word(value) that parseTypedArgs reads: /^(\w+)\((.*)\)$/
TypedForm(value) ==
  LET n == PrefixLen(value, WordChars)
  IN n >= 1 /\ Len(value) >= n + 2 /\ value[n + 1] = "(" /\ value[Len(value)] = ")"

TypedKey(value) == Take(value, PrefixLen(value, WordChars))

TypedFormat == options.argFormat \in {"typed", "undefined"}

\* the token left its key in args or an entry in errors
Accounted(token) ==
  \/ HasArg(Result.args, TypedKey(token.value))
  \/ /\ Result.errors # None
     /\ \E e \in 1..Len(Result.errors[1]) :
          Result.errors[1][e].position = token.position

\* C26: in typed format no argument is silently discarded: every token of
\* the form word(value) either contributes its key to args or adds an entry
\* to errors, wherever it stands and whatever its value contains, a mention
\* text included.
C26_NoArgumentDiscarded ==
  (HasResult /\ TypedFormat) =>
    \A i \in 1..Len(InputTokens) :
      TypedForm(InputTokens[i].value) => Accounted(InputTokens[i])

\* the same for the messages none of whose word(value) tokens holds a mention
C26_WithoutMentionText ==
  (HasResult /\ TypedFormat
     /\ \A i \in 1..Len(InputTokens) :
          TypedForm(InputTokens[i].value) => InputTokens[i].type # "mention") =>
    \A i \in 1..Len(InputTokens) :
      TypedForm(InputTokens[i].value) => Accounted(InputTokens[i])

\* the number of parentheses open before the character at p: "(" and ")"
\* count outside quotes and unescaped, and a ")" with none open closes none
RECURSIVE OpenDepth(_, _)
OpenDepth(message, p) ==
  IF p = 1 THEN 0
  ELSE LET at == Standing(message, p - 1)
           char == message[p - 1]
           before == OpenDepth(message, p - 1)
       IN IF at.double \/ at.single \/ at.escaped THEN before
          ELSE IF char = "(" THEN before + 1
          ELSE IF char = ")" /\ before > 0 THEN before - 1
          ELSE before

\* the delimiter at p stands outside quotes and outside every open
\* parenthesis, not escaped
TopLevel(message, p) ==
  /\ IsDelimiterAt(message, p)
  /\ LET at == Standing(message, p)
     IN ~at.double /\ ~at.single /\ ~at.escaped
  /\ OpenDepth(message, p) = 0

RECURSIVE KeptOutside(_, _)
KeptOutside(message, p) ==
  IF p > Len(message) THEN <<>>
  ELSE IF TopLevel(message, p) THEN KeptOutside(message, p + 1)
  ELSE <<message[p]>> \o KeptOutside(message, p + 1)

\* C27: the tokenizer's parenthesis depth is never negative, so an unmatched
\* ")" outside quotes does not keep the top-level delimiters after it from
\* splitting tokens: the tokens are the message cut at the delimiters that
\* stand outside quotes and outside every open parenthesis.
C27_DepthNeverNegative ==
  output.returned =>
    /\ \A n \in 0..Len(input.v) : TokScan(options, input.v, n).parenLevel >= 0
    /\ Flatten(TokenValues) = KeptOutside(input.v, 1)
    /\ Len(TokenValues) =
         Cardinality({ p \in 1..Len(input.v) :
                         /\ ~TopLevel(input.v, p)
                         /\ (p = 1 \/ TopLevel(input.v, p - 1)) })

\* the same for the messages in which no ")" stands without its "("
C27_WithoutUnmatched ==
  (output.returned
     /\ \A p \in 1..(Len(input.v) + 1) : Standing(input.v, p).depth >= 0) =>
    /\ \A n \in 0..Len(input.v) : TokScan(options, input.v, n).parenLevel >= 0
    /\ Flatten(TokenValues) = KeptOutside(input.v, 1)
    /\ Len(TokenValues) =
         Cardinality({ p \in 1..Len(input.v) :
                         /\ ~TopLevel(input.v, p)
                         /\ (p = 1 \/ TopLevel(input.v, p - 1)) })

\* the place (1-based) of the first character of the i-th item written
NthStart(message, i) ==
  CHOOSE p \in ItemStarts(message) :
    Cardinality({ q \in ItemStarts(message) : q < p }) = i - 1

TokenList == output.value[1].tokens

\* every token stands at the index of its first character, the positions
\* grow along the list, and the unclosed-quote error points at the last token
PositionsExact ==
  /\ Len(TokenList) = Cardinality(ItemStarts(input.v))
  /\ \A i \in 1..Len(TokenList) :
       TokenList[i].position = NthStart(input.v, i) - 1
  /\ \A i, j \in 1..Len(TokenList) :
       i < j => TokenList[i].position < TokenList[j].position
  /\ \A e \in 1..Len(output.value[1].errors) :
       output.value[1].errors[e].position = NthStart(input.v, Len(TokenList)) - 1

\* C28: the position of every emitted token is the index, within the
\* tokenized content, of the token's first character, also for a token that
\* begins with a quote or a backslash; so the positions are strictly
\* increasing along the token list and the position of a parse error
\* identifies the offending token.
C28_TokenPositions == output.returned => PositionsExact

\* the same for the messages none of whose tokens begins with a backslash
C28_WithoutLeadingBackslash ==
  (output.returned /\ \A p \in ItemStarts(input.v) : input.v[p] # "\\")
    => PositionsExact

\* the embeds the transport holds, in the order it holds them: those of the
\* requests in flight, then those of the queue
RECURSIVE Held(_)
Held(batches) ==
  IF batches = <<>>
  THEN [i \in 1..Len(logger.discordQueue) |-> logger.discordQueue[i].embed]
  ELSE [i \in 1..Len(Head(batches)) |-> Head(batches)[i].embed] \o Held(Tail(batches))

HeldNow == Held(logger.sending)

\* the embeds logged that the transport holds no more: sent or dropped
Gone == { e \in 1..hist.logged : \A i \in 1..Len(HeldNow) : HeldNow[i] # e }

BatchSizeInForce == OrDefault(options.discord.batchSize, DefaultBatchSize)

\* C29: at most one batch request is in flight and at most one processQueue
\* timer is pending at any time, and never both, however many log calls
\* arrive meanwhile; a message logged meanwhile is only appended to the
\* queue; the embeds leave in the order they were logged, at most batchSize
\* of them in a request.
C29_OneRequestInOrder ==
  /\ Len(logger.sending) <= 1
  /\ Len(logger.timers) <= 1
  /\ Len(logger.sending) + Len(logger.timers) <= 1
  /\ \A b \in 1..Len(logger.sending) :
       Len(logger.sending[b]) \in 1..BatchSizeInForce
  /\ \A i, j \in 1..Len(HeldNow) : i < j => HeldNow[i] < HeldNow[j]
  /\ \A d \in Gone : \A i \in 1..Len(HeldNow) : d < HeldNow[i]
  /\ hist.last.kind = "logged" =>
       /\ logger.discordQueue # <<>>
       /\ logger.discordQueue[Len(logger.discordQueue)]
            = [embed |-> hist.logged, retryCount |-> 0]

C29_Witness ==
  /\ hist.last.kind = "logged"
  /\ Len(logger.sending) = 1
  /\ Len(logger.sending[1]) = 2
  /\ logger.timers = <<>>
  /\ Len(logger.discordQueue) = 1
  /\ hist.logged = 3

C29_WitnessDelay ==
  /\ hist.last.kind = "logged"
  /\ Len(logger.timers) = 1
  /\ logger.timers[1] > 0
  /\ Len(logger.discordQueue) >= 2

\* the logger with fair scheduling: a timer that is set fires, and a request
\* that was made settles, one way or the other
SpecLoggerLive ==
  /\ InitLogger
  /\ [][NextLogger]_vars
  /\ WF_vars(ProcessQueue)
  /\ WF_vars(SendResolves \/ SendRejects)

Busy == logger.discordQueue # <<>> \/ logger.isProcessing

Drained ==
  /\ logger.discordQueue = <<>>
  /\ ~logger.isProcessing
  /\ logger.timers = <<>>
  /\ logger.sending = <<>>

\* the embed was sent successfully, or is held no more after maxRetries + 1
\* requests that all failed
Disposed(e) ==
  \/ e \in hist.delivered
  \/ /\ e \in Gone
     /\ hist.sent[e] = MaxRetriesInForce + 1

\* a log call made while the transport is at rest
LoggedAtRest == Drained /\ hist'.logged = hist.logged + 1

\* C30: once no further message is logged, and with every request settling,
\* the queue becomes empty and isProcessing false again, whether the sends
\* succeed or fail; every embed logged is by then sent successfully or
\* dropped after maxRetries + 1 failed requests; and a log call made after
\* that sets the flag and one timer again.
C30_QueueDrains ==
  /\ Busy ~> Drained
  /\ \A e \in Embeds : (hist.logged >= e) ~> Disposed(e)
  /\ [](Drained => \A e \in 1..hist.logged : Disposed(e))
  /\ [][LoggedAtRest =>
          /\ logger'.isProcessing
          /\ logger'.timers = <<0>>
          /\ Len(logger'.discordQueue) = 1]_vars

C30_Witness ==
  /\ Drained
  /\ hist.logged = MaxEmbeds
  /\ hist.last.kind = "idle"
  /\ hist.delivered # {}
  /\ \E e \in 1..hist.logged :
       e \notin hist.delivered /\ hist.sent[e] = MaxRetriesInForce + 1

C30_WitnessRestart ==
  /\ hist.last.kind = "logged"
  /\ hist.delivered # {}
  /\ logger.timers = <<0>>
  /\ logger.isProcessing
  /\ Len(logger.discordQueue) = 1

====
